---- MODULE Spec2Model ----
(***************************************************************************)
(* Quento API (apps/api): the conversation ring-phase lifecycle of         *)
(* ChatService, the background run of AnalysisService, the accounts of     *)
(* AuthService and the WebSocket fan-out of api/v1/chat.py, as state       *)
(* machines over the committed database rows and the connection registry.  *)
(*                                                                         *)
(* A request handler is a coroutine; the steps below are the segments      *)
(* between the database commits it awaits.  `event` describes the step     *)
(* that produced the current state: the operation, its caller, the         *)
(* identifier it was given and the HTTP status it answered (0 while the    *)
(* handler has not answered yet or for a background step).                 *)
(***************************************************************************)
EXTENDS Integers, Sequences, FiniteSets, TLC

VARIABLES
    service,        \* the service whose handlers run in this behaviour
    conversations,  \* conversation id -> row of `conversations` with its messages
    next_conv,      \* next fresh conversation id (ids are never reused)
    inflight,       \* handler slot -> the request suspended in it, or Idle
    db_exports,     \* the names bound in module app.db.database
    analyses,       \* analysis id -> committed row of `analyses`
    tasks,          \* analysis id -> the background task of _run_analysis
    strategies,     \* strategy id -> committed row of `strategies`
    enum_members,   \* the member names the enums of models/strategy.py define
    action_items,   \* action item id -> committed row of `action_items`
    generation,     \* strategy id -> the task of _generate_strategy_content
    batch,          \* the batch_update_actions request in progress, or NoBatch
    call,           \* the application of a pure function: its inputs and result
    users,          \* user id -> committed row of `users`
    issued_tokens,  \* the reset tokens secrets.token_urlsafe has returned
    active_connections, \* ConnectionManager: conversation id -> list of sockets
    sockets,        \* socket -> the connection websocket_chat serves on it
    work,           \* handler -> its position in the broadcast it is making
    event           \* the step that led to this state

chat_vars == <<conversations, next_conv, inflight>>
analysis_vars == <<db_exports, analyses, tasks, strategies>>
ws_vars == <<active_connections, sockets, work>>
auth_vars == <<users, issued_tokens>>
strategy_vars == <<enum_members, action_items, generation, batch>>
vars ==
    <<service, conversations, next_conv, inflight, db_exports, analyses, tasks,
      strategies, enum_members, action_items, generation, batch, call, users,
      issued_tokens, active_connections, sockets, work, event>>

\* ------------------------------------------------------------------ bounds
MaxConversations == 1
MaxMessages == 7
MaxInflight == 2
MaxAnalyses == 1
MaxWorkers == 2
MaxStrategies == 1
MaxGenerated == 2
MaxActionIds == 5
MaxModelFailures == 1
MaxExchanges == 5
MaxUsers == 2
MaxWsConversations == 2
MaxSockets == 2
MaxBroadcasts == 2
MaxWsMessages == 3

\* ------------------------------------------------------------------ domains
Users == {"alice", "bob"}
ConversationIds == 1..MaxConversations
Slots == 1..MaxInflight
AnalysisIds == 1..MaxAnalyses
WorkerIds == 1..MaxWorkers
StrategyIds == 1..MaxStrategies

\* models/conversation.py RingPhase, in declaration order
RingPhases == <<"core", "discover", "plan", "execute", "optimize">>
RingPhase == {RingPhases[i] : i \in 1..Len(RingPhases)}

\* events
Event(op, caller, id, code, arg) ==
    [op |-> op, caller |-> caller, id |-> id, code |-> code, arg |-> arg]
NoEvent == Event("none", "none", 0, 0, "none")

\* ------------------------------------------------------------------ texts
\* The texts that occur in the model, each with the phrases of the
\* heuristic's keyword lists that occur in its lower-cased content.
\*   welcome_default  : the welcome text for a request without initial context
\*                      ("... analyzing your website first ... To get started ...")
\*   welcome_analysis : the welcome text when initial_context is given
\*                      ("... how we can improve ... the primary goal ...")
\*   keywords         : a user message "our customers value our mission; a
\*                      competitor and seo; priority and action; done and
\*                      completed; results and learning"
\*   reply            : a model reply "Tell me more."
\*   fallback_<phase> : the canned sentences of AIService._get_fallback_response
\*   goal             : a user message "we have one goal"
\*   transition       : a model reply "a good foundation; ready to plan; let's
\*                      do this; step back; a deeper dive"
Phrases(text) ==
    CASE text = "welcome_default"  -> {"first", "started"}
      [] text = "welcome_analysis" -> {"improve", "goal", "understand your business"}
      [] text = "fallback_core" -> {"customers", "ideal customer"}
      [] text = "fallback_plan" -> {"next", "priority"}
      [] text = "fallback_execute" -> {"action", "first", "take action"}
      [] text = "fallback_optimize" -> {"progress", "results"}
      [] text = "goal" -> {"goal"}
      [] text = "transition" -> {"good foundation", "ready to plan", "let's do this",
                                 "step back", "deeper dive"}
      [] text = "keywords" -> {"customers", "value", "mission", "competitor", "seo",
                               "priority", "action", "done", "completed",
                               "results", "learning"}
      [] OTHER -> {}

UserTexts == {"keywords"}
ModelReplies == {"reply"}
\* what the call of the external model does: it returns a reply or raises
LlmOutcomes == ModelReplies \cup {"raises"}

Message(role, content) == [role |-> role, content |-> content]

\* ------------------------------------------------------------------ heuristic
\* mutant: three user messages are enough in every phase
MinExchanges_three(phase) == 3

\* services/ai_service.py analyze_for_phase_advancement: criteria
MinExchanges(phase) ==
    CASE phase = "core" -> 4
      [] phase = "discover" -> 3
      [] phase = "plan" -> 3
      [] phase = "execute" -> 4
      [] phase = "optimize" -> 3

KeySignals(phase) ==
    CASE phase = "core" -> {"target audience", "ideal customer", "customers",
                            "different", "unique", "value", "problem we solve",
                            "mission", "vision", "goal"}
      [] phase = "discover" -> {"competitor", "opportunity", "quick win", "improve",
                                "channel", "marketing", "seo", "social"}
      [] phase = "plan" -> {"priority", "action", "timeline", "first",
                            "metric", "measure", "goal"}
      [] phase = "execute" -> {"done", "completed", "finished", "working on",
                               "progress", "started", "implemented"}
      [] phase = "optimize" -> {"results", "learning", "adjust", "improve",
                                "working", "not working", "next"}

SufficientCoverage(phase) == IF phase = "core" THEN 3 ELSE 2

TransitionSignals(phase) ==
    CASE phase = "core" -> {"ready to discover", "discover some opportunities",
                            "good foundation", "understand your business",
                            "move forward", "next phase"}
      [] phase = "discover" -> {"build a plan", "create a strategy", "action plan",
                                "ready to plan", "let's prioritize"}
      [] phase = "plan" -> {"start executing", "take action", "let's do this",
                            "first step", "ready to implement"}
      [] phase = "execute" -> {"review progress", "step back", "optimize",
                               "what's working", "refine our approach"}
      [] phase = "optimize" -> {"new cycle", "deeper dive", "revisit",
                                "next level", "evolved strategy"}

PhaseIndex(phase) == CHOOSE i \in 1..Len(RingPhases) : RingPhases[i] = phase

\* _detect_phase_transition_signal: the next phase's name, or "none"
DetectPhaseTransitionSignal(response, current_phase) ==
    IF /\ TransitionSignals(current_phase) \cap Phrases(response) # {}
       /\ PhaseIndex(current_phase) < Len(RingPhases)
    THEN RingPhases[PhaseIndex(current_phase) + 1]
    ELSE "none"

\* analyze_for_phase_advancement(conversation, (user_message, ai_response), _)
AnalyzeForPhaseAdvancement(ring_phase, messages, user_message, ai_response) ==
    LET exchange_count ==
            Cardinality({i \in 1..Len(messages) : messages[i].role = "user"})
        all_content ==
            UNION {Phrases(messages[i].content) : i \in 1..Len(messages)}
                \cup Phrases(user_message) \cup Phrases(ai_response)
        covered_signals == Cardinality(KeySignals(ring_phase) \cap all_content)
    IN  IF exchange_count < MinExchanges(ring_phase)
        THEN [should_advance |-> FALSE, reason |-> "too few exchanges"]
        ELSE IF covered_signals >= SufficientCoverage(ring_phase)
        THEN [should_advance |-> TRUE, reason |-> "covered key topics"]
        ELSE IF DetectPhaseTransitionSignal(ai_response, ring_phase) # "none"
        THEN [should_advance |-> TRUE, reason |-> "AI signaled readiness"]
        ELSE [should_advance |-> FALSE, reason |-> "not enough key topics"]

\* ------------------------------------------------------------------ AIService
\* mutant: the fallback is the phase-independent default sentence
FallbackResponse_generic(ring_phase) == "fallback_generic"

\* _get_fallback_response: the canned sentence of the phase
FallbackResponse(ring_phase) ==
    CASE ring_phase = "core" -> "fallback_core"
      [] ring_phase = "discover" -> "fallback_discover"
      [] ring_phase = "plan" -> "fallback_plan"
      [] ring_phase = "execute" -> "fallback_execute"
      [] ring_phase = "optimize" -> "fallback_optimize"
      [] OTHER -> "fallback_generic"

\* generate_response from the call of the model on: the reply, or the
\* fallback of the conversation's phase when the call raised
GenerateResponse(ring_phase, outcome) ==
    IF outcome = "raises" THEN FallbackResponse(ring_phase) ELSE outcome

\* the fallback sentences stored in a transcript so far
ModelFailures(messages) ==
    Cardinality({i \in 1..Len(messages) :
                    messages[i].content \in {FallbackResponse(p) : p \in RingPhase}})

\* ------------------------------------------------------------------ ChatService
\* the row create_conversation adds (chat_service.py 45-51)
NewConversation(user_id, initial_context) ==
    [user_id |-> user_id,
     ring_phase |-> "core",
     status |-> "active",
     business_context |-> initial_context,
     messages |-> <<>>]

\* mutant: the welcome is stored with the system role
WelcomeMessage_system(initial_context) ==
    Message("system",
            IF initial_context THEN "welcome_analysis" ELSE "welcome_default")

\* the welcome message (chat_service.py 58-77)
WelcomeMessage(initial_context) ==
    Message("assistant",
            IF initial_context THEN "welcome_analysis" ELSE "welcome_default")

\* mutant: the query is not scoped to the caller
Visible_unscoped(c, user_id) ==
    c \in DOMAIN conversations

\* get_conversation's query: the id, scoped to the caller
Visible(c, user_id) ==
    /\ c \in DOMAIN conversations
    /\ conversations[c].user_id = user_id

\* mutant: storing the assistant's reply also moves the conversation to the
\* next phase
AddMessage_advancing(c, role, content) ==
    [conversations EXCEPT
        ![c].messages = Append(@, Message(role, content)),
        ![c].ring_phase =
            IF role = "assistant" /\ @ # "optimize"
            THEN RingPhases[PhaseIndex(@) + 1] ELSE @]

\* mutant: the message is stored in front of the older ones
AddMessage_first(c, role, content) ==
    [conversations EXCEPT ![c].messages = <<Message(role, content)>> \o @]

\* add_message on a visible conversation
AddMessage(c, role, content) ==
    [conversations EXCEPT ![c].messages = Append(@, Message(role, content))]

Request(op, caller, id, arg) == [op |-> op, caller |-> caller, id |-> id, arg |-> arg]
Idle == Request("idle", "none", 0, "none")
HasIdleSlot == \E k \in Slots : inflight[k] = Idle
FreeSlot == CHOOSE k \in Slots : inflight[k] = Idle /\ \A j \in Slots : inflight[j] = Idle => k <= j
Suspend(r) == [inflight EXCEPT ![FreeSlot] = r]
\* replies still owed to conversation c by suspended send_message calls
PendingReplies(c) ==
    Cardinality({k \in Slots : inflight[k].op = "send_message" /\ inflight[k].id = c})

\* a step of a ChatService handler: the other service's rows are not touched
ChatStep ==
    /\ service = "chat"
    /\ UNCHANGED <<service, analysis_vars, strategy_vars, call, auth_vars, ws_vars>>

\* create_conversation up to its first commit: the row is stored
CreateConversation(u, initial_context) ==
    /\ ChatStep
    /\ next_conv <= MaxConversations
    /\ HasIdleSlot
    /\ conversations' = conversations @@ (next_conv :> NewConversation(u, initial_context))
    /\ next_conv' = next_conv + 1
    /\ inflight' = Suspend(Request("create_conversation", u, next_conv, initial_context))
    /\ event' = Event("create_conversation", u, next_conv, 0, initial_context)

\* create_conversation from the welcome message to its return; the insert
\* fails on the foreign key when the row was deleted in between
CreateConversationWelcome(k) ==
    LET r == inflight[k] IN
    /\ ChatStep
    /\ r.op = "create_conversation"
    /\ inflight' = [inflight EXCEPT ![k] = Idle]
    /\ next_conv' = next_conv
    /\ IF r.id \in DOMAIN conversations
       THEN /\ conversations' =
                  [conversations EXCEPT ![r.id].messages = Append(@, WelcomeMessage(r.arg))]
            /\ event' = Event("create_conversation", r.caller, r.id, 201, r.arg)
       ELSE /\ conversations' = conversations
            /\ event' = Event("create_conversation", r.caller, r.id, 500, r.arg)

\* GET /chat/conversations/{id}
GetConversation(u, c) ==
    /\ ChatStep
    /\ event' = Event("get_conversation", u, c, IF Visible(c, u) THEN 200 ELSE 404, "none")
    /\ UNCHANGED chat_vars

\* send_message up to the commit of the user message (chat_service.py 185-191)
SendMessage(u, c, content) ==
    /\ ChatStep
    /\ HasIdleSlot
    /\ next_conv' = next_conv
    /\ IF Visible(c, u)
       THEN /\ Len(conversations[c].messages) + PendingReplies(c) + 2 <= MaxMessages
            /\ conversations' = AddMessage(c, "user", content)
            /\ inflight' = Suspend(Request("send_message", u, c, content))
            /\ event' = Event("send_message", u, c, 0, "stored")
       ELSE /\ UNCHANGED <<conversations, inflight>>
            /\ event' = Event("send_message", u, c, 404, "none")

\* send_message from the reload of the conversation to its return
\* (chat_service.py 194-231): model reply, assistant message, heuristic
SendMessageReply(k) ==
    LET r == inflight[k] IN
    /\ ChatStep
    /\ r.op = "send_message"
    /\ inflight' = [inflight EXCEPT ![k] = Idle]
    /\ next_conv' = next_conv
    /\ IF Visible(r.id, r.caller)
       THEN \E outcome \in LlmOutcomes :
            LET conversation == conversations[r.id]
                bounded == outcome = "raises" =>
                              ModelFailures(conversation.messages) < MaxModelFailures
                ai_response == GenerateResponse(conversation.ring_phase, outcome)
                advancement == AnalyzeForPhaseAdvancement(
                    conversation.ring_phase, conversation.messages, r.arg, ai_response)
            IN  /\ bounded
                /\ conversations' = AddMessage(r.id, "assistant", ai_response)
                /\ event' = Event("send_message", r.caller, r.id, 200,
                                  [ring_phase |-> conversation.ring_phase,
                                   should_advance |-> advancement.should_advance,
                                   llm |-> outcome])
       ELSE /\ conversations' = conversations
            /\ event' = Event("send_message", r.caller, r.id, 404, "none")

\* mutant: the update stores the successor of the current phase, whatever
\* phase the request names
UpdateRingPhase_successor(u, c, new_phase) ==
    /\ ChatStep
    /\ UNCHANGED <<next_conv, inflight>>
    /\ IF Visible(c, u)
       THEN /\ conversations' =
                  [conversations EXCEPT ![c].ring_phase =
                      IF @ = "optimize" THEN @ ELSE RingPhases[PhaseIndex(@) + 1]]
            /\ event' = Event("update_ring_phase", u, c, 200, new_phase)
       ELSE /\ conversations' = conversations
            /\ event' = Event("update_ring_phase", u, c, 404, new_phase)

\* mutant: the update rejects a phase that is not the successor of the current one
UpdateRingPhase_adjacent(u, c, new_phase) ==
    /\ ChatStep
    /\ UNCHANGED <<next_conv, inflight>>
    /\ IF ~Visible(c, u)
       THEN /\ conversations' = conversations
            /\ event' = Event("update_ring_phase", u, c, 404, new_phase)
       ELSE IF PhaseIndex(new_phase) = PhaseIndex(conversations[c].ring_phase) + 1
       THEN /\ conversations' = [conversations EXCEPT ![c].ring_phase = new_phase]
            /\ event' = Event("update_ring_phase", u, c, 200, new_phase)
       ELSE /\ conversations' = conversations
            /\ event' = Event("update_ring_phase", u, c, 400, new_phase)

\* PATCH /chat/conversations/{id}/ring
UpdateRingPhase(u, c, new_phase) ==
    /\ ChatStep
    /\ UNCHANGED <<next_conv, inflight>>
    /\ IF Visible(c, u)
       THEN /\ conversations' = [conversations EXCEPT ![c].ring_phase = new_phase]
            /\ event' = Event("update_ring_phase", u, c, 200, new_phase)
       ELSE /\ conversations' = conversations
            /\ event' = Event("update_ring_phase", u, c, 404, new_phase)

\* DELETE /chat/conversations/{id}: the row and, by cascade, its messages
DeleteConversation(u, c) ==
    /\ ChatStep
    /\ UNCHANGED <<next_conv, inflight>>
    /\ IF Visible(c, u)
       THEN /\ conversations' = [d \in DOMAIN conversations \ {c} |-> conversations[d]]
            /\ event' = Event("delete_conversation", u, c, 204, "none")
       ELSE /\ conversations' = conversations
            /\ event' = Event("delete_conversation", u, c, 404, "none")

ChatNext ==
    \/ \E u \in Users, ctx \in BOOLEAN : CreateConversation(u, ctx)
    \/ \E k \in Slots : CreateConversationWelcome(k)
    \/ \E u \in Users, c \in ConversationIds : GetConversation(u, c)
    \/ \E u \in Users, c \in ConversationIds, t \in UserTexts : SendMessage(u, c, t)
    \/ \E k \in Slots : SendMessageReply(k)
    \/ \E u \in Users, c \in ConversationIds, p \in RingPhase : UpdateRingPhase(u, c, p)
    \/ \E u \in Users, c \in ConversationIds : DeleteConversation(u, c)

\* the conversations stored before the WebSocket endpoint is exercised: one
\* per id, the first of alice and the others of bob, each with its welcome
WsConversations ==
    [c \in 1..MaxWsConversations |->
        [NewConversation(IF c = 1 THEN "alice" ELSE "bob", FALSE)
            EXCEPT !.messages = <<WelcomeMessage(FALSE)>>]]

ChatInit ==
    /\ conversations = IF service = "ws" THEN WsConversations ELSE <<>>
    /\ next_conv = 1
    /\ inflight = [k \in Slots |-> Idle]

\* ------------------------------------------------------------------ URLs
\* A submitted website_url is the concatenation of a scheme, a separator and
\* a host, each possibly empty, as a sequence of characters.
Chars(scheme) ==
    CASE scheme = "http" -> <<"h", "t", "t", "p">>
      [] scheme = "https" -> <<"h", "t", "t", "p", "s">>
      [] scheme = "ftp" -> <<"f", "t", "p">>
      [] scheme = "://" -> <<":", "/", "/">>
      [] scheme = "a" -> <<"a">>
      [] scheme = ":80" -> <<":", "8", "0">>
      [] OTHER -> <<>>
Urls ==
    [scheme : {"", "http", "https", "ftp"}, sep : {"", "://"}, host : {"", "a"},
     port : {"", ":80"}]
UrlText(url) == Chars(url.scheme) \o Chars(url.sep) \o Chars(url.host) \o Chars(url.port)

IsPrefix(p, t) == Len(p) <= Len(t) /\ SubSeq(t, 1, Len(p)) = p

\* schemas/analysis.py AnalysisCreate.website_url: pattern ^https?://.*
MatchesUrlPattern(t) ==
    \/ IsPrefix(<<"h", "t", "t", "p", ":", "/", "/">>, t)
    \/ IsPrefix(<<"h", "t", "t", "p", "s", ":", "/", "/">>, t)

\* urllib.parse.urlparse: the scheme is what precedes the first ":" when that
\* is a letter followed by letters; the netloc is what follows "//" up to the
\* next "/", port included (the texts here hold no "?" or "#")
Letters == {"a", "f", "h", "p", "s", "t"}
ColonAt(t) ==
    IF \E i \in 1..Len(t) : t[i] = ":"
    THEN CHOOSE i \in 1..Len(t) : t[i] = ":" /\ \A j \in 1..(i - 1) : t[j] # ":"
    ELSE 0
HasScheme(t) ==
    /\ ColonAt(t) > 1
    /\ \A j \in 1..(ColonAt(t) - 1) : t[j] \in Letters
UrlScheme(t) == IF HasScheme(t) THEN SubSeq(t, 1, ColonAt(t) - 1) ELSE <<>>
AfterScheme(t) == IF HasScheme(t) THEN SubSeq(t, ColonAt(t) + 1, Len(t)) ELSE t
UrlNetloc(t) ==
    LET rest == AfterScheme(t) IN
    IF IsPrefix(<<"/", "/">>, rest)
    THEN LET body == SubSeq(rest, 3, Len(rest))
             stop == IF \E i \in 1..Len(body) : body[i] = "/"
                     THEN (CHOOSE i \in 1..Len(body) :
                              body[i] = "/" /\ \A j \in 1..(i - 1) : body[j] # "/") - 1
                     ELSE Len(body)
         IN  SubSeq(body, 1, stop)
    ELSE <<>>

\* POST /analysis: 422 from the request schema, 400 from create_analysis's
\* own check (analysis_service.py 44-46), else 201
CreateAnalysisStatus(t) ==
    IF ~MatchesUrlPattern(t) THEN 422
    ELSE IF UrlScheme(t) = <<>> \/ UrlNetloc(t) = <<>> THEN 400
    ELSE 201

\* ------------------------------------------------------------------ AnalysisService
\* the name _run_analysis imports (analysis_service.py 153) and the names
\* db/database.py binds (58: async_session_factory)
SessionMakerName == "async_session_maker"
DatabaseNames == {"async_session_factory", "engine", "Base", "get_db", "init_db", "GUID"}

\* mutant: the SEO stage commits a progress below the content stage's
ProgressAfter_seo30(stage) ==
    CASE stage = "fetch" -> 20
      [] stage = "content" -> 40
      [] stage = "seo" -> 30
      [] stage = "competitors" -> 80
      [] stage = "social" -> 90
      [] stage = "report" -> 100

\* the stages of _run_analysis in order, with the progress committed after each
Stages == <<"fetch", "content", "seo", "competitors", "social", "report">>
ProgressAfter(stage) ==
    CASE stage = "fetch" -> 20
      [] stage = "content" -> 40
      [] stage = "seo" -> 60
      [] stage = "competitors" -> 80
      [] stage = "social" -> 90
      [] stage = "report" -> 100
StageSet == {Stages[i] : i \in 1..Len(Stages)}
StageIndex(stage) == CHOOSE i \in 1..Len(Stages) : Stages[i] = stage

\* whether the stage calls anything that can raise: the competitor and social
\* stages call their analyser only when the row asks for it
StageRuns(row, stage) ==
    CASE stage = "competitors" -> row.include_competitors
      [] stage = "social" -> row.include_social
      [] OTHER -> TRUE

\* str(e) of the exception a stage raises
ExceptionText(stage) == stage \o " failed"

\* mutant: the row is created already PROCESSING
NewAnalysis_processing(user_id, include_competitors, include_social) ==
    [user_id |-> user_id,
     status |-> "processing",
     progress |-> 0,
     include_competitors |-> include_competitors,
     include_social |-> include_social,
     results |-> "null",
     error_message |-> "null",
     completed_at |-> "null"]

\* the row create_analysis adds (analysis_service.py 49-56)
NewAnalysis(user_id, include_competitors, include_social) ==
    [user_id |-> user_id,
     status |-> "pending",
     progress |-> 0,
     include_competitors |-> include_competitors,
     include_social |-> include_social,
     results |-> "null",
     error_message |-> "null",
     completed_at |-> "null"]

Task(pc) == [pc |-> pc, exc |-> "none"]

\* get_analysis's query: the id, scoped to the caller
AnalysisVisible(a, user_id) ==
    /\ a \in DOMAIN analyses
    /\ analyses[a].user_id = user_id

\* a step of an AnalysisService / StrategyService handler or task
AnalysisStep ==
    service \in {"analysis", "workers"}
        /\ UNCHANGED <<service, chat_vars, db_exports, strategy_vars, call, auth_vars, ws_vars>>

NextAnalysisId == Cardinality(DOMAIN analyses) + 1

\* the requests made while the background runs of several analyses are
\* followed: accepted POST /analysis requests only, and as many as there are
\* workers
AnalysisLimit == IF service = "workers" THEN MaxWorkers ELSE MaxAnalyses
RequestUrls ==
    IF service = "workers"
    THEN {[scheme |-> "https", sep |-> "://", host |-> "a", port |-> ""]}
    ELSE Urls
Readers == IF service = "workers" THEN {} ELSE Users

\* POST /analysis: validation, the PENDING row, the task's dispatch, the answer
CreateAnalysis(u, url, include_competitors, include_social) ==
    /\ AnalysisStep
    /\ strategies' = strategies
    /\ LET code == CreateAnalysisStatus(UrlText(url))
           a == NextAnalysisId
       IN  IF code = 201
           THEN /\ a <= AnalysisLimit
                /\ analyses' = analyses @@
                       (a :> NewAnalysis(u, include_competitors, include_social))
                /\ tasks' = tasks @@ (a :> Task("scheduled"))
                /\ event' = Event("create_analysis", u, a, 201,
                                  [url |-> url, status |-> analyses'[a].status,
                                   progress |-> analyses'[a].progress])
           ELSE /\ UNCHANGED <<analyses, tasks>>
                /\ event' = Event("create_analysis", u, 0, code,
                                  [url |-> url, status |-> "none", progress |-> 0])

\* GET /analysis/{id}/status
GetAnalysisStatus(u, a) ==
    /\ AnalysisStep
    /\ UNCHANGED <<analyses, tasks, strategies>>
    /\ event' = IF AnalysisVisible(a, u)
                THEN Event("get_analysis_status", u, a, 200,
                           [status |-> analyses[a].status,
                            progress |-> analyses[a].progress])
                ELSE Event("get_analysis_status", u, a, 404, "none")

\* GET /analysis/{id}: the results only of a COMPLETED row
GetAnalysis(u, a) ==
    /\ AnalysisStep
    /\ UNCHANGED <<analyses, tasks, strategies>>
    /\ event' = IF AnalysisVisible(a, u)
                THEN Event("get_analysis", u, a, 200,
                           [status |-> analyses[a].status,
                            progress |-> analyses[a].progress,
                            results |-> IF analyses[a].status = "completed"
                                        THEN analyses[a].results ELSE "null"])
                ELSE Event("get_analysis", u, a, 404, "none")

\* _run_analysis, line 153: the import of the session maker.  An ImportError
\* is raised outside the try block and ends the task.
RunImport(a) ==
    /\ AnalysisStep
    /\ a \in DOMAIN tasks
    /\ tasks[a].pc = "scheduled"
    /\ UNCHANGED <<analyses, strategies>>
    /\ tasks' = [tasks EXCEPT ![a] =
                    IF SessionMakerName \in db_exports
                    THEN Task("begin")
                    ELSE [pc |-> "crashed", exc |-> "ImportError"]]
    /\ event' = Event("run_analysis", "task", a, 0, "import")

\* mutant: the task's first update is not restricted to the row of its id
RunBegin_unfiltered(a) ==
    /\ AnalysisStep
    /\ a \in DOMAIN tasks
    /\ tasks[a].pc = "begin"
    /\ strategies' = strategies
    /\ analyses' = [b \in DOMAIN analyses |->
                       [analyses[b] EXCEPT !.status = "processing", !.progress = 10]]
    /\ tasks' = [tasks EXCEPT ![a].pc = Stages[1]]
    /\ event' = Event("run_analysis", "task", a, 0, "begin")

\* _run_analysis, lines 155-168: load the row, PROCESSING, progress 10
RunBegin(a) ==
    /\ AnalysisStep
    /\ a \in DOMAIN tasks
    /\ tasks[a].pc = "begin"
    /\ strategies' = strategies
    /\ IF a \in DOMAIN analyses
       THEN /\ analyses' = [analyses EXCEPT ![a].status = "processing",
                                            ![a].progress = 10]
            /\ tasks' = [tasks EXCEPT ![a].pc = Stages[1]]
       ELSE /\ analyses' = analyses
            /\ tasks' = [tasks EXCEPT ![a].pc = "done"]
    /\ event' = Event("run_analysis", "task", a, 0, "begin")

\* mutant: the last stage commits status and progress in a commit of their
\* own, before the results
Completed_without_results(row) ==
    [row EXCEPT !.status = "completed", !.progress = 100]

\* what the last stage commits (analysis_service.py 217-229)
Completed(row) ==
    [row EXCEPT !.results = "results",
                !.status = "completed",
                !.progress = 100,
                !.completed_at = "utcnow"]

\* one stage of _run_analysis that returns: its progress is committed
RunStage(a) ==
    /\ AnalysisStep
    /\ a \in DOMAIN tasks
    /\ tasks[a].pc \in StageSet
    /\ strategies' = strategies
    /\ LET stage == tasks[a].pc IN
       /\ analyses' = [analyses EXCEPT ![a] =
                          IF stage = "report" THEN Completed(@)
                          ELSE [@ EXCEPT !.progress = ProgressAfter(stage)]]
       /\ tasks' = [tasks EXCEPT ![a].pc =
                       IF stage = "report" THEN "done"
                       ELSE Stages[StageIndex(stage) + 1]]
       /\ event' = Event("run_analysis", "task", a, 0, stage)

\* mutant: the except block sets the status and drops the exception text
Failed_no_message(row, exc) ==
    [row EXCEPT !.status = "failed"]

\* the except block (analysis_service.py 231-240)
Failed(row, exc) ==
    [row EXCEPT !.status = "failed", !.error_message = exc]

\* one stage of _run_analysis that raises: the except block records it
RunStageRaises(a) ==
    /\ AnalysisStep
    /\ a \in DOMAIN tasks
    /\ tasks[a].pc \in StageSet
    /\ StageRuns(analyses[a], tasks[a].pc)
    /\ strategies' = strategies
    /\ LET stage == tasks[a].pc IN
       /\ analyses' = [analyses EXCEPT ![a] = Failed(@, ExceptionText(stage))]
       /\ tasks' = [tasks EXCEPT ![a] = [pc |-> "done", exc |-> ExceptionText(stage)]]
       /\ event' = Event("run_analysis", "task", a, 0, stage)

\* ------------------------------------------------------------------ StrategyService
\* models/strategy.py: the members StrategyStatus and Effort define (16-32),
\* and the members strategy_service.py names that they do not define
EnumNames ==
    {"StrategyStatus.DRAFT", "StrategyStatus.ACTIVE", "StrategyStatus.COMPLETED",
     "StrategyStatus.ARCHIVED", "Effort.LOW", "Effort.MEDIUM", "Effort.HIGH"}
GenerationStatusNames ==
    {"StrategyStatus.GENERATING", "StrategyStatus.READY", "StrategyStatus.FAILED"}
EffortSizeNames == {"Effort.SMALL", "Effort.LARGE"}

\* ---- _generate_recommendations, _generate_action_items
\* (strategy_service.py 290-355, 385-476)
Categories == {"seo", "content", "mobile", "speed", "social"}

\* scores.get(key, 100) of results.get("scores", {})
ScoreOf(scores, key) == IF key \in DOMAIN scores THEN scores[key] ELSE 100

\* the list with x appended if the condition holds
AppendIf(list, condition, x) == IF condition THEN list \o x ELSE list

\* _generate_recommendations: the ids of the recommendations, in order
GenerateRecommendations(scores) ==
    LET r1 == AppendIf(<<>>, ScoreOf(scores, "seo") < 80, <<"seo-optimization">>)
        r2 == AppendIf(r1, ScoreOf(scores, "content") < 80, <<"content-strategy">>)
        r3 == AppendIf(r2, ScoreOf(scores, "mobile") < 70, <<"mobile-optimization">>)
        r4 == AppendIf(r3, ScoreOf(scores, "speed") < 70, <<"speed-improvement">>)
    IN AppendIf(r4, ScoreOf(scores, "social") < 60, <<"social-presence">>)

\* an ActionItem the generator constructs: its category, the Effort member it
\* names and its due date in days from today
ActionItem(category, effort, days) ==
    [category |-> category, effort |-> effort, due_in |-> days]

\* the items of the branches of _generate_action_items that are taken
PlannedItems(scores) ==
    LET a1 == AppendIf(<<>>, ScoreOf(scores, "seo") < 80,
                       <<ActionItem("SEO", "Effort.SMALL", 7),
                         ActionItem("SEO", "Effort.SMALL", 14),
                         ActionItem("SEO", "Effort.MEDIUM", 30)>>)
        a2 == AppendIf(a1, ScoreOf(scores, "content") < 80,
                       <<ActionItem("Content", "Effort.MEDIUM", 14),
                         ActionItem("Content", "Effort.LARGE", 21)>>)
    IN AppendIf(a2, ScoreOf(scores, "mobile") < 70,
                <<ActionItem("Mobile", "Effort.SMALL", 3),
                  ActionItem("Mobile", "Effort.MEDIUM", 14)>>)

\* _generate_action_items: the rows it adds and commits, or the AttributeError
\* of a branch that names an Effort member the enum does not define (nothing
\* is added before the branches are done)
GenerateActionItems(scores, members) ==
    IF \E i \in 1..Len(PlannedItems(scores)) : PlannedItems(scores)[i].effort \notin members
    THEN [exception |-> "AttributeError", items |-> <<>>]
    ELSE [exception |-> "none", items |-> PlannedItems(scores)]

\* ---- rows, queries and requests
\* the scores in the results of a completed analysis: two content issues, a
\* viewport, no social analysis (analysis_service.py 432-467)
ResultScores ==
    [c \in Categories |->
        CASE c = "seo" -> 100 [] c = "content" -> 70 [] c = "mobile" -> 80
          [] c = "speed" -> 70 [] OTHER -> 60]

\* the row generate_strategy adds (strategy_service.py 54-59)
NewStrategy(user_id, analysis_id) ==
    [user_id |-> user_id, analysis_id |-> analysis_id, status |-> "generating",
     recommendations |-> "null"]

\* the row of an action item of a strategy (models/strategy.py 66-90)
ActionItemRow(strategy_id, item) ==
    [strategy_id |-> strategy_id, category |-> item.category, due_in |-> item.due_in,
     status |-> "pending", completed_at |-> "null"]

StrategyVisible(s, user_id) ==
    /\ s \in DOMAIN strategies
    /\ strategies[s].user_id = user_id

\* mutant: the action item is looked up without the owner of its strategy
ActionVisible_any_owner(id, user_id) ==
    id \in DOMAIN action_items

\* update_action_item's query: the id, joined to a strategy of the caller
\* (strategy_service.py 131-139)
ActionVisible(id, user_id) ==
    /\ id \in DOMAIN action_items
    /\ StrategyVisible(action_items[id].strategy_id, user_id)

NextStrategyId == Cardinality(DOMAIN strategies) + 1
StrategyLimit == IF service = "strategy" THEN MaxGenerated ELSE MaxStrategies
NoBatch == [pc |-> "none", caller |-> "none", updates |-> <<>>, idx |-> 0, results |-> <<>>]

\* a step of a StrategyService handler or task
StrategyStep ==
    /\ service \in {"analysis", "strategy", "actions"}
    /\ UNCHANGED <<service, chat_vars, db_exports, analyses, tasks, enum_members, call,
                   auth_vars, ws_vars>>

\* POST /strategy/generate (strategy_service.py 34-68, api/v1/strategy.py
\* 37-56): the lookup of the analysis, the row with StrategyStatus.GENERATING,
\* the dispatch of the task; the route then builds the response from
\* attributes the Strategy model does not have (strategy_service.py 95-98)
GenerateStrategy(u, a) ==
    /\ StrategyStep
    /\ UNCHANGED <<action_items, batch>>
    /\ IF ~AnalysisVisible(a, u)
       THEN /\ UNCHANGED <<strategies, generation>>
            /\ event' = Event("generate_strategy", u, a, 404, "none")
       ELSE IF analyses[a].results = "null"
       THEN /\ UNCHANGED <<strategies, generation>>
            /\ event' = Event("generate_strategy", u, a, 400, "none")
       ELSE IF "StrategyStatus.GENERATING" \notin enum_members
       THEN /\ UNCHANGED <<strategies, generation>>
            /\ event' = Event("generate_strategy", u, a, 500, "AttributeError")
       ELSE /\ NextStrategyId <= StrategyLimit
            /\ strategies' = strategies @@ (NextStrategyId :> NewStrategy(u, a))
            /\ generation' = generation @@ (NextStrategyId :> Task("import"))
            /\ event' = Event("generate_strategy", u, a, 500, "AttributeError")

\* GET /strategy/{id}: 404, or the response built from attributes the Strategy
\* model does not have (strategy_service.py 90-98)
GetStrategy(u, s) ==
    /\ StrategyStep
    /\ UNCHANGED <<strategies, action_items, generation, batch>>
    /\ event' = Event("get_strategy", u, s, IF StrategyVisible(s, u) THEN 500 ELSE 404, "none")

\* POST /strategy/{id}/export
ExportStrategy(u, s) ==
    /\ StrategyStep
    /\ UNCHANGED <<strategies, action_items, generation, batch>>
    /\ event' = Event("export_strategy", u, s, IF StrategyVisible(s, u) THEN 200 ELSE 404, "none")

\* ---- the task of _generate_strategy_content (strategy_service.py 155-211)
\* the except block: the strategy is set to StrategyStatus.FAILED and committed,
\* or the task ends with the AttributeError of that name
GenerationFails(s) ==
    IF "StrategyStatus.FAILED" \in enum_members
    THEN /\ strategies' = [strategies EXCEPT ![s].status = "failed"]
         /\ generation' = [generation EXCEPT ![s] = [pc |-> "done", exc |-> "none"]]
    ELSE /\ strategies' = strategies
         /\ generation' = [generation EXCEPT ![s] = [pc |-> "done", exc |-> "AttributeError"]]

\* the task starts: the import of line 159, the session, the strategy
GenerationImport(s) ==
    /\ StrategyStep
    /\ s \in DOMAIN generation
    /\ generation[s].pc = "import"
    /\ UNCHANGED <<strategies, action_items, batch>>
    /\ generation' = [generation EXCEPT ![s] =
                         IF SessionMakerName \in db_exports
                         THEN Task("content")
                         ELSE [pc |-> "done", exc |-> "ImportError"]]
    /\ event' = Event("generate_strategy_content", "task", s, 0, "import")

\* the content is generated and committed with StrategyStatus.READY (171-199)
GenerationContent(s) ==
    /\ StrategyStep
    /\ s \in DOMAIN generation
    /\ generation[s].pc = "content"
    /\ UNCHANGED <<action_items, batch>>
    /\ IF "StrategyStatus.READY" \in enum_members
       THEN /\ strategies' = [strategies EXCEPT ![s].status = "ready",
                                                ![s].recommendations = "generated"]
            /\ generation' = [generation EXCEPT ![s] = Task("items")]
       ELSE GenerationFails(s)
    /\ event' = Event("generate_strategy_content", "task", s, 0, "content")

\* the action items are generated and committed (201-202, 385-476)
GenerationItems(s) ==
    LET r == GenerateActionItems(ResultScores, enum_members)
        ids == DOMAIN action_items
        n == Cardinality(ids)
    IN
    /\ StrategyStep
    /\ s \in DOMAIN generation
    /\ generation[s].pc = "items"
    /\ batch' = batch
    /\ IF r.exception = "none"
       THEN /\ action_items' = action_items @@
                   [i \in (n + 1)..(n + Len(r.items)) |-> ActionItemRow(s, r.items[i - n])]
            /\ strategies' = strategies
            /\ generation' = [generation EXCEPT ![s] = [pc |-> "done", exc |-> "none"]]
       ELSE /\ action_items' = action_items
            /\ GenerationFails(s)
    /\ event' = Event("generate_strategy_content", "task", s, 0, "items")

\* ---- action item updates (strategy_service.py 127-153)
\* the row after update_action_item's assignments (146-149)
UpdatedItem(row, status) ==
    [row EXCEPT !.status = status,
                !.completed_at = IF status = "completed" THEN "utcnow" ELSE @]

\* what ActionItemResponse.model_validate copies from the row
ActionItemResponse(id, row) == [id |-> id, status |-> row.status]

\* PATCH /strategy/actions/{action_id} (api/v1/strategy.py 117-146)
UpdateActionItem(u, id, status) ==
    /\ StrategyStep
    /\ UNCHANGED <<strategies, generation, batch>>
    /\ IF ActionVisible(id, u)
       THEN /\ action_items' = [action_items EXCEPT ![id] = UpdatedItem(@, status)]
            /\ event' = Event("update_action_item", u, id, 200, status)
       ELSE /\ action_items' = action_items
            /\ event' = Event("update_action_item", u, id, 404, status)

\* PATCH /strategy/actions: the request arrives (api/v1/strategy.py 155-162)
BatchBegin(u, updates) ==
    /\ StrategyStep
    /\ batch = NoBatch
    /\ UNCHANGED <<strategies, action_items, generation>>
    /\ batch' = [pc |-> "loop", caller |-> u, updates |-> updates, idx |-> 1,
                 results |-> <<>>]
    /\ event' = Event("batch_update_actions", u, 0, 0, "begin")

\* one turn of the loop: update_action_item for the next update, which is
\* applied, committed and listed, or skipped on NotFoundError (163-169)
BatchItem ==
    /\ StrategyStep
    /\ batch.pc = "loop"
    /\ batch.idx <= Len(batch.updates)
    /\ UNCHANGED <<strategies, generation>>
    /\ LET update == batch.updates[batch.idx] IN
       IF ActionVisible(update.action_id, batch.caller)
       THEN /\ action_items' = [action_items EXCEPT
                                   ![update.action_id] = UpdatedItem(@, update.status)]
            /\ batch' = [batch EXCEPT
                            !.idx = @ + 1,
                            !.results = Append(@, ActionItemResponse(
                                update.action_id,
                                UpdatedItem(action_items[update.action_id], update.status)))]
       ELSE /\ action_items' = action_items
            /\ batch' = [batch EXCEPT !.idx = @ + 1]
    /\ event' = Event("batch_update_actions", batch.caller, batch.idx, 0, "item")

\* the loop is over: the answer lists the results (171)
BatchReturn ==
    /\ StrategyStep
    /\ batch.pc = "loop"
    /\ batch.idx > Len(batch.updates)
    /\ UNCHANGED <<strategies, action_items, generation>>
    /\ batch' = NoBatch
    /\ event' = Event("batch_update_actions", batch.caller, Len(batch.updates), 200,
                      batch.results)

\* the requests of the action item routes: ids of present and absent items;
\* the batches are alice's, of up to two updates to completed, and the single
\* updates are bob's, to in_progress
ActionIds == IF service = "actions" THEN 1..MaxActionIds ELSE {}
Updates == [action_id : ActionIds, status : {"completed"}]
Batches ==
    IF service = "actions"
    THEN {<<>>} \cup {<<x>> : x \in Updates} \cup {<<x, y>> : x \in Updates, y \in Updates}
    ELSE {}
GeneratedIds == 1..MaxGenerated

StrategyNext ==
    \/ \E u \in Readers, a \in AnalysisIds : GenerateStrategy(u, a)
    \/ \E u \in Readers, s \in StrategyIds : GetStrategy(u, s)
    \/ \E u \in Readers, s \in StrategyIds : ExportStrategy(u, s)
    \/ \E s \in GeneratedIds : GenerationImport(s)
    \/ \E s \in GeneratedIds : GenerationContent(s)
    \/ \E s \in GeneratedIds : GenerationItems(s)
    \/ \E id \in ActionIds : UpdateActionItem("bob", id, "in_progress")
    \/ \E updates \in Batches : BatchBegin("alice", updates)
    \/ BatchItem
    \/ BatchReturn

\* the rows of two ready strategies, alice's and bob's, and of the two action
\* items of each
ReadyStrategies ==
    <<[NewStrategy("alice", 1) EXCEPT !.status = "ready", !.recommendations = "generated"],
      [NewStrategy("bob", 2) EXCEPT !.status = "ready", !.recommendations = "generated"]>>
StoredActionItems ==
    <<ActionItemRow(1, PlannedItems(ResultScores)[1]),
      ActionItemRow(1, PlannedItems(ResultScores)[2]),
      ActionItemRow(2, PlannedItems(ResultScores)[1]),
      ActionItemRow(2, PlannedItems(ResultScores)[2])>>

StrategyInit ==
    /\ strategies = IF service = "actions" THEN ReadyStrategies ELSE <<>>
    /\ action_items = IF service = "actions" THEN StoredActionItems ELSE <<>>
    /\ generation = <<>>
    /\ batch = NoBatch
    /\ enum_members \in
          CASE service = "strategy" ->
                   {EnumNames, EnumNames \cup GenerationStatusNames,
                    EnumNames \cup GenerationStatusNames \cup EffortSizeNames}
            [] service = "actions" ->
                   {EnumNames \cup GenerationStatusNames \cup EffortSizeNames}
            [] OTHER -> {EnumNames}

AnalysisNext ==
    \/ \E u \in Users, url \in RequestUrls, ic \in BOOLEAN, is \in BOOLEAN :
           CreateAnalysis(u, url, ic, is)
    \/ \E u \in Readers, a \in AnalysisIds : GetAnalysisStatus(u, a)
    \/ \E u \in Readers, a \in AnalysisIds : GetAnalysis(u, a)
    \/ \E a \in WorkerIds : RunImport(a)
    \/ \E a \in WorkerIds : RunBegin(a)
    \/ \E a \in WorkerIds : RunStage(a)
    \/ \E a \in WorkerIds : RunStageRaises(a)

\* the analysis of alice that _run_analysis has completed
CompletedAnalyses == <<Completed(NewAnalysis("alice", FALSE, FALSE))>>

AnalysisInit ==
    /\ db_exports \in CASE service \in {"analysis", "workers"} ->
                             {DatabaseNames, DatabaseNames \cup {SessionMakerName}}
                        [] service = "strategy" -> {DatabaseNames \cup {SessionMakerName}}
                        [] OTHER -> {DatabaseNames}
    /\ analyses = IF service = "strategy" THEN CompletedAnalyses ELSE <<>>
    /\ tasks = IF service = "strategy" THEN <<[pc |-> "done", exc |-> "none"]>> ELSE <<>>

\* ------------------------------------------------------------------ AuthService
\* schemas/auth.py: password length limits and character classes
MinPasswordLength == 8
MaxPasswordLength == 128
Digits == {"0", "1", "2", "3", "4", "5", "6", "7", "8", "9"}
SpecialCharacters ==
    {"!", "@", "#", "$", "%", "^", "&", "*", "(", ")", ",", ".", "?", "\"", ":",
     "{", "}", "|", "<", ">"}

\* the passwords of the model: a run of the letter "a", then optionally the
\* digit "1", then optionally "!" (a special character) or "_" (not one)
Passwords ==
    {[letters |-> l, digit |-> d, symbol |-> s] :
        l \in {MinPasswordLength - 3, MinPasswordLength - 2,
               MaxPasswordLength - 2, MaxPasswordLength - 1},
        d \in BOOLEAN,
        s \in {"", "!", "_"}}
PasswordText(p) ==
    [i \in 1..p.letters |-> "a"]
        \o (IF p.digit THEN <<"1">> ELSE <<>>)
        \o (IF p.symbol = "" THEN <<>> ELSE <<p.symbol>>)

\* mutant: the validator does not ask for a special character
PasswordAccepted_no_symbol(t) ==
    /\ Len(t) >= MinPasswordLength
    /\ Len(t) <= MaxPasswordLength
    /\ \E i \in 1..Len(t) : t[i] \in Digits

\* UserCreate.password: Field(min_length, max_length) and validate_password
PasswordAccepted(t) ==
    /\ Len(t) >= MinPasswordLength
    /\ Len(t) <= MaxPasswordLength
    /\ \E i \in 1..Len(t) : t[i] \in Digits
    /\ \E i \in 1..Len(t) : t[i] \in SpecialCharacters

\* the model passwords that UserCreate and PasswordResetConfirm validate, and the e-mail addresses
AcceptedPasswords == {p \in Passwords : PasswordAccepted(PasswordText(p))}
Emails == {"a@b.com", "c@d.com"}
\* the values secrets.token_urlsafe can return, and the tokens a client can
\* present: those, and one that is never issued
ResetTokens == IF service = "reset" THEN {"token", "token2"} ELSE {"token"}
PresentedTokens == IF service = "reset" THEN ResetTokens \cup {"forged"} ELSE ResetTokens
\* the passwords a request can carry
RequestPasswords == IF service = "reset" THEN AcceptedPasswords ELSE Passwords
UserIds == 1..MaxUsers

\* mutant: every password verifies
VerifyPassword_any(p, hashed) == TRUE

\* core/security.py get_password_hash and verify_password
PasswordHash(p) == [scheme |-> "argon2", secret |-> p]
VerifyPassword(p, hashed) == hashed = PasswordHash(p)

\* users.password_reset_token when no reset is pending (NULL)
NoResetToken == [scheme |-> "none", secret |-> "none"]

\* get_user_by_email
RegisteredEmails == {users[i].email : i \in DOMAIN users}
UserByEmail(email) == CHOOSE i \in DOMAIN users : users[i].email = email

\* the row create_user adds (auth_service.py 56-62)
NewUser(email, p) ==
    [email |-> email,
     hashed_password |-> PasswordHash(p),
     is_active |-> TRUE,
     password_reset_token |-> NoResetToken,
     password_reset_expires |-> "null"]

\* a step of an AuthService handler
AuthStep ==
    /\ service \in {"auth", "reset"}
    /\ UNCHANGED <<service, conversations, next_conv, analysis_vars, strategy_vars, call,
                   ws_vars>>

PendingRegistrations == Cardinality({k \in Slots : inflight[k].op = "register"})

\* POST /auth/register up to create_user's lookup of the e-mail
\* (schema validation, auth_service.py 51-53)
Register(email, p) ==
    /\ AuthStep
    /\ UNCHANGED auth_vars
    /\ IF p \notin AcceptedPasswords
       THEN /\ inflight' = inflight
            /\ event' = Event("register", email, 0, 422, p)
       ELSE IF email \in RegisteredEmails
       THEN /\ inflight' = inflight
            /\ event' = Event("register", email, 0, 409, p)
       ELSE /\ HasIdleSlot
            /\ Cardinality(DOMAIN users) + PendingRegistrations < MaxUsers
            /\ inflight' = Suspend(Request("register", email, 0, p))
            /\ event' = Event("register", email, 0, 0, p)

\* mutant: users.email has no unique index
RegisterCommit_no_index(k) ==
    LET r == inflight[k]
        id == Cardinality(DOMAIN users) + 1
    IN  /\ AuthStep
        /\ r.op = "register"
        /\ inflight' = [inflight EXCEPT ![k] = Idle]
        /\ issued_tokens' = issued_tokens
        /\ users' = users @@ (id :> NewUser(r.caller, r.arg))
        /\ event' = Event("register", r.caller, id, 201, r.arg)

\* create_user from the insert on (auth_service.py 56-68) and register's
\* answer; the unique index on users.email refuses a second row
RegisterCommit(k) ==
    LET r == inflight[k]
        id == Cardinality(DOMAIN users) + 1
    IN  /\ AuthStep
        /\ r.op = "register"
        /\ inflight' = [inflight EXCEPT ![k] = Idle]
        /\ issued_tokens' = issued_tokens
        /\ IF r.caller \in RegisteredEmails
           THEN /\ users' = users
                /\ event' = Event("register", r.caller, 0, 500, r.arg)
           ELSE /\ users' = users @@ (id :> NewUser(r.caller, r.arg))
                /\ event' = Event("register", r.caller, id, 201, r.arg)

\* authenticate_user (auth_service.py 70-87): the status login answers
LoginStatus(email, p) ==
    IF email \notin RegisteredEmails THEN 401
    ELSE IF ~VerifyPassword(p, users[UserByEmail(email)].hashed_password) THEN 401
    ELSE IF ~users[UserByEmail(email)].is_active THEN 401
    ELSE 200

\* POST /auth/login
Login(email, p) ==
    /\ AuthStep
    /\ UNCHANGED <<auth_vars, inflight>>
    /\ event' = Event("login", email,
                      IF LoginStatus(email, p) = 200 THEN UserByEmail(email) ELSE 0,
                      LoginStatus(email, p), p)

\* mutant: the answer tells whether a token was generated
ResetRequestResponse_revealing(token) ==
    IF token = "none"
    THEN [code |-> 404, message |-> "no account with that email"]
    ELSE [code |-> 200, message |-> "a password reset link has been sent"]

\* POST /auth/password-reset/request: the answer (api/v1/auth.py 151-156)
ResetRequestResponse(token) ==
    [code |-> 200, message |-> "if an account with that email exists, a link has been sent"]

\* request_password_reset (auth_service.py 144-163) and the route's answer;
\* the generated token is one that was not generated before
RequestPasswordReset(email, reset_token) ==
    LET token == IF email \in RegisteredEmails THEN reset_token ELSE "none" IN
    /\ AuthStep
    /\ inflight' = inflight
    /\ IF email \in RegisteredEmails
       THEN /\ reset_token \notin issued_tokens
            /\ issued_tokens' = issued_tokens \cup {reset_token}
            /\ users' = [users EXCEPT
                             ![UserByEmail(email)].password_reset_token =
                                 PasswordHash(reset_token),
                             ![UserByEmail(email)].password_reset_expires = "utcnow+1h"]
       ELSE UNCHANGED auth_vars
    /\ event' = Event("request_password_reset", email, 0,
                      ResetRequestResponse(token).code,
                      ResetRequestResponse(token).message)

\* the users whose stored reset token verifies against `token`
\* (auth_service.py 168-181); an expired token is not selected
ResetCandidates(token, expired) ==
    {i \in DOMAIN users :
        /\ users[i].password_reset_token # NoResetToken
        /\ users[i].password_reset_expires # "null"
        /\ ~expired
        /\ VerifyPassword(token, users[i].password_reset_token)}

\* what reset_password writes to the user it found (auth_service.py 186-189)
ResetPassword(row, p) ==
    [row EXCEPT !.hashed_password = PasswordHash(p),
                !.password_reset_token = NoResetToken,
                !.password_reset_expires = "null"]

\* POST /auth/password-reset/confirm up to the search of reset_password
\* (schema validation, auth_service.py 168-184): the first user whose stored
\* token verifies, or InvalidTokenError; `expired` tells whether the hour of
\* the stored tokens has passed
ConfirmPasswordReset(token, p, expired) ==
    /\ AuthStep
    /\ UNCHANGED auth_vars
    /\ IF p \notin AcceptedPasswords
       THEN /\ inflight' = inflight
            /\ event' = Event("confirm_password_reset", "none", 0, 422, p)
       ELSE IF ResetCandidates(token, expired) = {}
       THEN /\ inflight' = inflight
            /\ event' = Event("confirm_password_reset", token, 0, 400, p)
       ELSE \E i \in ResetCandidates(token, expired) :
            /\ \A j \in ResetCandidates(token, expired) : i <= j
            /\ HasIdleSlot
            /\ inflight' = Suspend(Request("reset_password", token, i, p))
            /\ event' = Event("confirm_password_reset", token, i, 0, p)

\* reset_password's update and commit (auth_service.py 186-190) and the
\* route's answer
ResetPasswordCommit(k) ==
    LET r == inflight[k] IN
    /\ AuthStep
    /\ r.op = "reset_password"
    /\ inflight' = [inflight EXCEPT ![k] = Idle]
    /\ issued_tokens' = issued_tokens
    /\ users' = [users EXCEPT ![r.id] = ResetPassword(@, r.arg)]
    /\ event' = Event("confirm_password_reset", r.caller, r.id, 200, r.arg)

AuthNext ==
    \/ \E token \in PresentedTokens, p \in RequestPasswords, expired \in BOOLEAN :
           ConfirmPasswordReset(token, p, expired)
    \/ \E k \in Slots : ResetPasswordCommit(k)
    \/ \E email \in Emails, p \in RequestPasswords : Register(email, p)
    \/ \E k \in Slots : RegisterCommit(k)
    \/ \E email \in Emails, p \in AcceptedPasswords : Login(email, p)
    \/ \E email \in Emails, t \in ResetTokens : RequestPasswordReset(email, t)

\* two registered users, each with the shortest accepted password
RegisteredUsers ==
    LET p == CHOOSE q \in AcceptedPasswords :
                 \A r \in AcceptedPasswords : q.letters <= r.letters
    IN <<NewUser("a@b.com", p), NewUser("c@d.com", p)>>

AuthInit ==
    /\ users = IF service = "reset" THEN RegisteredUsers ELSE <<>>
    /\ issued_tokens = {}

\* ------------------------------------------------------------------ WebSocket chat
\* api/v1/chat.py: the module-level ConnectionManager and websocket_chat
SocketIds == 1..MaxSockets
WsConversationIds == 1..MaxWsConversations
\* the coroutines that broadcast: the handler of each socket, and 0 for the
\* REST route POST /chat/conversations/{id}/messages
RestHandler == 0
Handlers == {RestHandler} \cup SocketIds

\* the tokens a client can present: the subject claim (a user id, the id of
\* nobody's account, or no usable id), the signature and the expiry
Tokens ==
    [sub : Users \cup {"carol", "none"}, signed : {TRUE}, expired : {FALSE}]
        \cup [sub : {"alice"}, signed : BOOLEAN, expired : BOOLEAN]

\* mutant: the payload is read without verifying the token
DecodeToken_unverified(token) == token.sub

\* decode_token (security.py 149-163): the payload's subject, or the
\* HTTPException raised on a JWTError (bad signature, expired)
DecodeToken(token) ==
    IF token.signed /\ ~token.expired THEN token.sub ELSE "raises"

\* websocket_chat 278-283: decode_token and UUID(payload.get("sub")); any
\* exception of the two is the invalid token
TokenUser(token) ==
    IF DecodeToken(token) \in {"raises", "none"} THEN "raises" ELSE DecodeToken(token)

\* the list registered under a conversation, empty when the key is absent
Listed(registry, c) ==
    IF c \in DOMAIN registry THEN registry[c] ELSE <<>>

\* list.remove: the sequence without its first occurrence of s
Remove(list, s) ==
    IF \E i \in 1..Len(list) : list[i] = s
    THEN LET i == CHOOSE k \in 1..Len(list) :
                      list[k] = s /\ \A j \in 1..(k - 1) : list[j] # s
         IN  SubSeq(list, 1, i - 1) \o SubSeq(list, i + 1, Len(list))
    ELSE list

\* ConnectionManager.connect after accept() (chat.py 41-45)
Connect(registry, s, c) ==
    IF c \in DOMAIN registry
    THEN [registry EXCEPT ![c] = Append(@, s)]
    ELSE registry @@ (c :> <<s>>)

\* mutant: disconnect leaves the emptied list under its key
Disconnect_keeps_key(registry, s, c) ==
    IF c \in DOMAIN registry
    THEN [registry EXCEPT ![c] = Remove(@, s)]
    ELSE registry

\* ConnectionManager.disconnect (chat.py 47-51): the socket is removed and
\* the key is deleted with its last socket
Disconnect(registry, s, c) ==
    IF c \in DOMAIN registry
    THEN IF Remove(registry[c], s) = <<>>
         THEN [d \in DOMAIN registry \ {c} |-> registry[d]]
         ELSE [registry EXCEPT ![c] = Remove(@, s)]
    ELSE registry

\* a connection: closed, or connected once manager.connect has returned and
\* until its handler leaves the receive loop; peer tells whether the client is
\* still there
ClosedSocket ==
    [state |-> "closed", conversation_id |-> 0, user_id |-> "none", peer |-> "gone"]
ConnectedSocket(c, u) ==
    [state |-> "connected", conversation_id |-> c, user_id |-> u, peer |-> "open"]

\* a handler's position: waiting (in receive_json, or no request), or inside
\* a stage of the processing of a frame with the content of its message (a
\* text the schema accepts, or one over the 10000 characters of
\* MessageCreate.content); idx is the index the `for` of
\* ConnectionManager.send_message has reached in the list, 0 when the list it
\* iterates has no element left to give (key absent, or list emptied)
Waiting == [stage |-> "waiting", conversation_id |-> 0, idx |-> 0, content |-> "none"]
SendStages == {"typing_on", "typing_off", "message", "typing"}
Broadcast(registry, stage, c, content) ==
    [stage |-> stage, conversation_id |-> c, content |-> content,
     idx |-> IF c \in DOMAIN registry THEN 1 ELSE 0]
Busy == {h \in Handlers : work[h] # Waiting}

\* the loops of send_message that iterate the list disconnect empties see an
\* exhausted list from then on, also when the key is created again
AfterDisconnect(registry, c) ==
    [h \in Handlers |->
        IF work[h].stage \in SendStages /\ work[h].conversation_id = c
              /\ c \notin DOMAIN registry
        THEN [work[h] EXCEPT !.idx = 0]
        ELSE work[h]]

\* the frames a client sends
Frames == {"message", "message_long", "message_empty", "typing", "other", "malformed"}
\* the exceptions send_json raises on a connection whose client has gone
SendFailures == {"WebSocketDisconnect", "RuntimeError"}

\* a step of the WebSocket endpoint or of the REST route that broadcasts
WsStep ==
    /\ service = "ws"
    /\ UNCHANGED <<service, next_conv, inflight, analysis_vars, strategy_vars, call,
                   auth_vars>>

\* websocket_chat from the handshake to manager.connect (chat.py 278-296)
WebsocketChat(s, c, token) ==
    LET user_id == TokenUser(token) IN
    /\ WsStep
    /\ sockets[s].state = "closed"
    /\ UNCHANGED <<conversations, work>>
    /\ IF user_id = "raises"
       THEN /\ UNCHANGED <<active_connections, sockets>>
            /\ event' = Event("websocket_chat", "none", c, 4001, [socket |-> s, token |-> token])
       ELSE IF ~Visible(c, user_id)
       THEN /\ UNCHANGED <<active_connections, sockets>>
            /\ event' = Event("websocket_chat", user_id, c, 4004, [socket |-> s, token |-> token])
       ELSE /\ active_connections' = Connect(active_connections, s, c)
            /\ sockets' = [sockets EXCEPT ![s] = ConnectedSocket(c, user_id)]
            /\ event' = Event("websocket_chat", user_id, c, 101, [socket |-> s, token |-> token])

\* the client of a connected socket goes away
PeerGone(s) ==
    /\ WsStep
    /\ sockets[s].state = "connected"
    /\ sockets[s].peer = "open"
    /\ sockets' = [sockets EXCEPT ![s].peer = "gone"]
    /\ event' = Event("peer_gone", sockets[s].user_id, sockets[s].conversation_id, 0,
                      [socket |-> s])
    /\ UNCHANGED <<conversations, active_connections, work>>

\* the handler leaves its loop through one of the except clauses (chat.py
\* 333-337): manager.disconnect of its own socket, then close(4000) for an
\* exception other than WebSocketDisconnect
LeaveLoop(s) ==
    LET c == sockets[s].conversation_id
        registry == Disconnect(active_connections, s, c)
    IN  /\ active_connections' = registry
        /\ sockets' = [sockets EXCEPT ![s] = ClosedSocket]
        /\ work' = [AfterDisconnect(registry, c) EXCEPT ![s] = Waiting]
CloseCode(exception) == IF exception = "WebSocketDisconnect" THEN 0 ELSE 4000

\* receive_json raises WebSocketDisconnect (chat.py 300, 333-334)
ReceiveDisconnect(s) ==
    /\ WsStep
    /\ sockets[s].state = "connected"
    /\ sockets[s].peer = "gone"
    /\ work[s] = Waiting
    /\ LeaveLoop(s)
    /\ event' = Event("receive_json", sockets[s].user_id, sockets[s].conversation_id,
                      CloseCode("WebSocketDisconnect"),
                      [socket |-> s, frame |-> "disconnect"])
    /\ UNCHANGED conversations

\* messages of the exchanges the handlers of conversation c are processing
PendingMessages(c) ==
    2 * Cardinality({h \in SocketIds :
                        work[h].conversation_id = c
                            /\ work[h].stage \in {"typing_on", "service"}
                            /\ work[h].content = "hello"})

\* receive_json returns a frame (chat.py 300-331)
ReceiveFrame(s, frame) ==
    LET c == sockets[s].conversation_id IN
    /\ WsStep
    /\ sockets[s].state = "connected"
    /\ sockets[s].peer = "open"
    /\ work[s] = Waiting
    /\ event' = Event("receive_json", sockets[s].user_id, c,
                      IF frame = "malformed" THEN CloseCode("AttributeError") ELSE 0,
                      [socket |-> s, frame |-> frame])
    /\ UNCHANGED conversations
    /\ CASE frame = "message" ->
              /\ Cardinality(Busy) < MaxBroadcasts
              /\ Len(conversations[c].messages) + PendingMessages(c) + 2 <= MaxWsMessages
              /\ work' = [work EXCEPT ![s] =
                              Broadcast(active_connections, "typing_on", c, "hello")]
              /\ UNCHANGED <<active_connections, sockets>>
         [] frame = "message_long" ->
              /\ Cardinality(Busy) < MaxBroadcasts
              /\ work' = [work EXCEPT ![s] =
                              Broadcast(active_connections, "typing_on", c, "too_long")]
              /\ UNCHANGED <<active_connections, sockets>>
         [] frame = "typing" ->
              /\ Cardinality(Busy) < MaxBroadcasts
              /\ work' = [work EXCEPT ![s] =
                              Broadcast(active_connections, "typing", c, "none")]
              /\ UNCHANGED <<active_connections, sockets>>
         [] frame = "malformed" -> LeaveLoop(s)
         [] OTHER -> UNCHANGED <<active_connections, sockets, work>>

\* the `for` of ConnectionManager.send_message has a next connection
HasNext(h) ==
    /\ work[h].stage \in SendStages
    /\ work[h].idx > 0
    /\ work[h].idx <= Len(Listed(active_connections, work[h].conversation_id))
NextConnection(h) == active_connections[work[h].conversation_id][work[h].idx]

\* one turn of the `for` of ConnectionManager.send_message (chat.py 55-59):
\* send_json to the next connection of the list.  An exception of send_json
\* leaves the loop and send_message, and is handled by the caller: the
\* handler of a socket leaves its receive loop (333-337), the REST route has
\* no clause for it (198-202) and answers 500
SendJson(h) ==
    LET target == NextConnection(h)
        c == work[h].conversation_id
    IN  /\ WsStep
        /\ HasNext(h)
        /\ UNCHANGED conversations
        /\ IF sockets[target].peer = "open"
           THEN /\ work' = [work EXCEPT ![h].idx = @ + 1]
                /\ UNCHANGED <<active_connections, sockets>>
                /\ event' = Event("send_json", "none", target, 0,
                                  [by |-> h, conversation_id |-> c,
                                   stage |-> work[h].stage, delivered |-> TRUE,
                                   exception |-> "none"])
           ELSE \E exception \in SendFailures :
                /\ IF h = RestHandler
                   THEN /\ work' = [work EXCEPT ![h] = Waiting]
                        /\ UNCHANGED <<active_connections, sockets>>
                   ELSE LeaveLoop(h)
                /\ event' = Event("send_json", "none", target,
                                  IF h = RestHandler THEN 500 ELSE CloseCode(exception),
                                  [by |-> h, conversation_id |-> c,
                                   stage |-> work[h].stage, delivered |-> FALSE,
                                   exception |-> exception])

\* the `for` of send_message is exhausted: the code that follows up to the
\* next await (chat.py 307-331; 186-196 for the REST route)
BroadcastDone(h) ==
    LET c == work[h].conversation_id
        stage == work[h].stage
    IN  /\ WsStep
        /\ stage \in SendStages
        /\ ~HasNext(h)
        /\ UNCHANGED <<conversations, active_connections, sockets>>
        /\ work' = [work EXCEPT ![h] =
                        CASE stage = "typing_on" ->
                                [stage |-> "service", conversation_id |-> c, idx |-> 0,
                                 content |-> work[h].content]
                          [] stage = "typing_off" ->
                                Broadcast(active_connections, "message", c, work[h].content)
                          [] OTHER -> Waiting]
        /\ event' = Event("broadcast", "none", c,
                          IF h = RestHandler THEN 200 ELSE 0,
                          [by |-> h, stage |-> stage])

\* service.send_message of the handler of a socket (chat.py 310-313): the
\* user message and the assistant's reply are stored
WsSendMessage(s) ==
    LET c == work[s].conversation_id IN
    /\ WsStep
    /\ s \in SocketIds
    /\ work[s].stage = "service"
    /\ work[s].content = "hello"
    /\ conversations' =
          [conversations EXCEPT ![c].messages =
              @ \o <<Message("user", "hello"), Message("assistant", "reply")>>]
    /\ work' = [work EXCEPT ![s] =
                    Broadcast(active_connections, "typing_off", c, work[s].content)]
    /\ event' = Event("ws_send_message", sockets[s].user_id, c, 0,
                      [socket |-> s, exception |-> "none"])
    /\ UNCHANGED <<active_connections, sockets>>

\* MessageCreate(content=content) raises ValidationError (chat.py 310,
\* schemas/chat.py 18): the except clause of the handler
WsSendMessageRaises(s) ==
    /\ WsStep
    /\ s \in SocketIds
    /\ work[s].stage = "service"
    /\ work[s].content = "too_long"
    /\ LeaveLoop(s)
    /\ event' = Event("ws_send_message", sockets[s].user_id, work[s].conversation_id,
                      CloseCode("ValidationError"),
                      [socket |-> s, exception |-> "ValidationError"])
    /\ UNCHANGED conversations

\* POST /chat/conversations/{id}/messages up to its broadcast (chat.py
\* 179-186): service.send_message, then manager.send_message starts
RestSendMessage(u, c) ==
    /\ WsStep
    /\ work[RestHandler] = Waiting
    /\ UNCHANGED <<active_connections, sockets>>
    /\ IF Visible(c, u)
       THEN /\ Cardinality(Busy) < MaxBroadcasts
            /\ Len(conversations[c].messages) + PendingMessages(c) + 2 <= MaxWsMessages
            /\ conversations' =
                  [conversations EXCEPT ![c].messages =
                      @ \o <<Message("user", "hello"), Message("assistant", "reply")>>]
            /\ work' = [work EXCEPT ![RestHandler] =
                            Broadcast(active_connections, "message", c, "hello")]
            /\ event' = Event("send_message", u, c, 0, "stored")
       ELSE /\ UNCHANGED <<conversations, work>>
            /\ event' = Event("send_message", u, c, 404, "none")

WsNext ==
    \/ \E s \in SocketIds, c \in WsConversationIds, token \in Tokens :
           WebsocketChat(s, c, token)
    \/ \E s \in SocketIds : PeerGone(s)
    \/ \E s \in SocketIds : ReceiveDisconnect(s)
    \/ \E s \in SocketIds, frame \in Frames : ReceiveFrame(s, frame)
    \/ \E h \in Handlers : SendJson(h)
    \/ \E h \in Handlers : BroadcastDone(h)
    \/ \E s \in SocketIds : WsSendMessage(s)
    \/ \E s \in SocketIds : WsSendMessageRaises(s)
    \/ \E u \in Users, c \in WsConversationIds : RestSendMessage(u, c)

WsInit ==
    /\ active_connections = <<>>
    /\ sockets = [s \in SocketIds |-> ClosedSocket]
    /\ work = [h \in Handlers |-> Waiting]

\* ------------------------------------------------------------------ pure functions
\* no function applied
NoCall == [fn |-> "none"]

\* a transcript: the welcome message and then `count` user messages of one text
Transcript(initial_context, count, text) ==
    <<WelcomeMessage(initial_context)>> \o [i \in 1..count |-> Message("user", text)]

\* the inputs of analyze_for_phase_advancement
HeuristicCalls ==
    [fn : {"analyze_for_phase_advancement"},
     ring_phase : RingPhase,
     initial_context : BOOLEAN,
     count : 0..MaxExchanges,
     text : {"reply", "goal", "keywords"},
     user_message : {"reply", "goal", "keywords"},
     ai_response : {"reply", "transition"},
     done : {FALSE},
     result : {[should_advance |-> FALSE, reason |-> "none"]}]

\* the heuristic applied to the inputs drawn
AnalyzePhase ==
    /\ service = "heuristic"
    /\ call.fn = "analyze_for_phase_advancement"
    /\ ~call.done
    /\ call' = [call EXCEPT
                   !.done = TRUE,
                   !.result = AnalyzeForPhaseAdvancement(
                       call.ring_phase,
                       Transcript(call.initial_context, call.count, call.text),
                       call.user_message, call.ai_response)]
    /\ event' = Event("analyze_for_phase_advancement", "none", 0, 0, "none")
    /\ UNCHANGED <<service, chat_vars, analysis_vars, strategy_vars, auth_vars, ws_vars>>

\* ---- AIService._build_messages (ai_service.py 937-991)
HistoryLimit == 10
MaxStored == 12

\* a stored row of `messages`: message number i of a conversation, created at
\* time i; the welcome is first, then user and assistant messages alternate
StoredMessage(i) ==
    [role |-> IF i % 2 = 1 THEN "assistant" ELSE "user",
     content |-> ToString(i),
     created_at |-> i]

\* conversation.messages as the relationship loads it: the n stored rows in
\* insertion order, rotated by `shift`, and reversed or not (the relationship
\* has no order_by, models/conversation.py 54)
LoadedMessages(n, shift, reversed) ==
    [i \in 1..n |->
        LET j == ((i - 1 + shift) % n) + 1
        IN StoredMessage(IF reversed THEN n + 1 - j ELSE j)]

\* sorted(..., key=lambda m: m.created_at): a stable insertion of each element
\* after the elements whose key is not greater
RECURSIVE SortedByCreatedAt(_)
SortedByCreatedAt(messages) ==
    IF Len(messages) <= 1 THEN messages
    ELSE LET front == SortedByCreatedAt(SubSeq(messages, 1, Len(messages) - 1))
             last == messages[Len(messages)]
             before == {i \in 1..Len(front) : front[i].created_at <= last.created_at}
             k == Cardinality(before)
         IN SubSeq(front, 1, k) \o <<last>> \o SubSeq(front, k + 1, Len(front))

\* messages[-HistoryLimit:]
LastMessages(messages) ==
    SubSeq(messages, IF Len(messages) > HistoryLimit
                     THEN Len(messages) - HistoryLimit + 1 ELSE 1, Len(messages))

\* mutant: the history is taken in the order the relationship loaded it
BuildMessages_unsorted(messages, user_message) ==
    <<Message("system", "system_prompt")>>
        \o [i \in 1..Len(LastMessages(messages)) |->
               Message(IF LastMessages(messages)[i].role = "user" THEN "user" ELSE "assistant",
                       LastMessages(messages)[i].content)]
        \o <<Message("user", user_message)>>

\* _build_messages: the system message, the history, the new user message
BuildMessages(messages, user_message) ==
    LET history_messages == LastMessages(SortedByCreatedAt(messages)) IN
    <<Message("system", "system_prompt")>>
        \o [i \in 1..Len(history_messages) |->
               Message(IF history_messages[i].role = "user" THEN "user" ELSE "assistant",
                       history_messages[i].content)]
        \o <<Message("user", user_message)>>

\* the inputs of _build_messages
BuildCalls ==
    {[fn |-> "_build_messages", stored |-> n, shift |-> s, reversed |-> r,
      user_message |-> u, done |-> FALSE, result |-> <<>>] :
        n \in 0..MaxStored, s \in 0..2, r \in BOOLEAN, u \in {"new", "2"}}

\* _build_messages applied to the inputs drawn
BuildPrompt ==
    /\ service = "prompt"
    /\ call.fn = "_build_messages"
    /\ ~call.done
    /\ call' = [call EXCEPT
                   !.done = TRUE,
                   !.result = BuildMessages(
                       LoadedMessages(call.stored, call.shift, call.reversed),
                       call.user_message)]
    /\ event' = Event("_build_messages", "none", 0, 0, "none")
    /\ UNCHANGED <<service, chat_vars, analysis_vars, strategy_vars, auth_vars, ws_vars>>

\* ---- AnalysisService._calculate_scores (analysis_service.py 432-467)
MaxContentIssues == 7
MaxSeoIssues == 6

Max(a, b) == IF a >= b THEN a ELSE b
Min(a, b) == IF a <= b THEN a ELSE b

\* the loop over seo["issues"]: 20 off for a high issue, 10 for a medium one,
\* 5 for any other
RECURSIVE SeoScoreAfter(_, _)
SeoScoreAfter(seo_score, issues) ==
    IF issues = <<>> THEN seo_score
    ELSE SeoScoreAfter(
             IF Head(issues) = "high" THEN seo_score - 20
             ELSE IF Head(issues) = "medium" THEN seo_score - 10
             ELSE seo_score - 5,
             Tail(issues))

\* Python's truth value of the `social` argument: None and {} are false
Truthy(social) == social = "dict"

\* mutant: the scores are not clamped
CalculateScores_unclamped(content_issues, seo_issues, mobile_ready, social) ==
    [seo |-> SeoScoreAfter(100, seo_issues),
     content |-> 100 - Len(content_issues) * 15,
     mobile |-> IF mobile_ready THEN 80 ELSE 40,
     speed |-> 70,
     social |-> IF Truthy(social) THEN 60 ELSE 40]

\* _calculate_scores
CalculateScores(content_issues, seo_issues, mobile_ready, social) ==
    [seo |-> Max(0, Min(100, SeoScoreAfter(100, seo_issues))),
     content |-> Max(0, Min(100, 100 - Len(content_issues) * 15)),
     mobile |-> IF mobile_ready THEN 80 ELSE 40,
     speed |-> 70,
     social |-> IF Truthy(social) THEN 60 ELSE 40]

\* overall_score of _run_analysis (analysis_service.py 207-214)
OverallScore(scores) ==
    (scores.seo + scores.content + scores.mobile + scores.speed + scores.social) \div 5

\* a list of n issues of one severity
Issues(n, severity) == [i \in 1..n |-> severity]

\* the inputs of _calculate_scores: the content issues, the SEO issues by
\* severity, the viewport flag and the social-presence result
ScoreCalls ==
    {[fn |-> "_calculate_scores", content_issues |-> c, high |-> h, medium |-> m,
      low |-> l, mobile_ready |-> mr, social |-> s, done |-> FALSE,
      result |-> [seo |-> 0, content |-> 0, mobile |-> 0, speed |-> 0, social |-> 0],
      overall |-> 0] :
        c \in 0..MaxContentIssues,
        h \in 0..MaxSeoIssues, m \in 0..2, l \in 0..2,
        mr \in BOOLEAN, s \in {"None", "empty", "dict"}}

\* _calculate_scores and the overall score applied to the inputs drawn; the
\* issues are listed low first, high last
CalculateScoresCall ==
    /\ service = "scores"
    /\ call.fn = "_calculate_scores"
    /\ ~call.done
    /\ LET scores == CalculateScores(
                         Issues(call.content_issues, "issue"),
                         Issues(call.low, "low") \o Issues(call.medium, "medium")
                             \o Issues(call.high, "high"),
                         call.mobile_ready, call.social)
       IN call' = [call EXCEPT !.done = TRUE, !.result = scores,
                               !.overall = OverallScore(scores)]
    /\ event' = Event("_calculate_scores", "none", 0, 0, "none")
    /\ UNCHANGED <<service, chat_vars, analysis_vars, strategy_vars, auth_vars, ws_vars>>

\* ---- the inputs of StrategyService._generate_recommendations and
\* _generate_action_items
\* the inputs of the two generators: results without scores, or with a score
\* per category that is 40, just below its threshold or at its threshold
ScoreInputs ==
    {<<>>} \cup
    {[c \in Categories |->
         CASE c = "seo" -> s1 [] c = "content" -> s2 [] c = "mobile" -> s3
           [] c = "speed" -> s4 [] OTHER -> s5] :
        s1 \in {40, 79, 80}, s2 \in {40, 79, 80}, s3 \in {40, 69, 70},
        s4 \in {40, 69, 70}, s5 \in {40, 59, 60}}
StrategyCalls ==
    {[fn |-> "_generate_recommendations", scores |-> s, members |-> m, done |-> FALSE,
      recommendations |-> <<>>, exception |-> "none", action_items |-> <<>>] :
        s \in ScoreInputs, m \in {EnumNames, EnumNames \cup EffortSizeNames}}

\* the two generators applied to the inputs drawn, as _generate_strategy_content
\* applies them to one results dictionary
GenerateContentCall ==
    /\ service = "generators"
    /\ call.fn = "_generate_recommendations"
    /\ ~call.done
    /\ call' = [call EXCEPT
                   !.done = TRUE,
                   !.recommendations = GenerateRecommendations(call.scores),
                   !.exception = GenerateActionItems(call.scores, call.members).exception,
                   !.action_items = GenerateActionItems(call.scores, call.members).items]
    /\ event' = Event("_generate_recommendations", "none", 0, 0, "none")
    /\ UNCHANGED <<service, chat_vars, analysis_vars, strategy_vars, auth_vars, ws_vars>>

PureInit ==
    CASE service = "heuristic" -> call \in HeuristicCalls
      [] service = "generators" -> call \in StrategyCalls
      [] service = "prompt" -> call \in BuildCalls
      [] service = "scores" -> call \in ScoreCalls
      [] OTHER -> call = NoCall

PureNext == AnalyzePhase \/ BuildPrompt \/ CalculateScoresCall \/ GenerateContentCall

\* ------------------------------------------------------------------ specification
Init ==
    /\ service \in {"chat", "analysis", "heuristic", "auth", "ws", "workers", "reset",
                    "prompt", "scores", "generators", "strategy", "actions"}
    /\ ChatInit
    /\ WsInit
    /\ AuthInit
    /\ AnalysisInit
    /\ StrategyInit
    /\ PureInit
    /\ event = NoEvent

Next == ChatNext \/ AnalysisNext \/ StrategyNext \/ PureNext \/ AuthNext \/ WsNext

Spec == Init /\ [][Next]_vars

\* the event loop runs every task create_task scheduled until it returns or raises
TaskStep(a) == RunImport(a) \/ RunBegin(a) \/ RunStage(a) \/ RunStageRaises(a)
FairSpec == Spec /\ \A a \in WorkerIds : WF_vars(TaskStep(a))

\* ------------------------------------------------------------------ claims
HasAssistantMessage(conversation) ==
    \E i \in 1..Len(conversation.messages) : conversation.messages[i].role = "assistant"

ConversationOps ==
    {"get_conversation", "send_message", "update_ring_phase", "delete_conversation"}
AnalysisOps == {"get_analysis", "get_analysis_status", "generate_strategy"}
StrategyOps == {"get_strategy", "export_strategy"}

\* the request e names a row that exists and belongs to another user
ForeignTarget(e) ==
    \/ /\ e.op \in ConversationOps
       /\ e.id \in DOMAIN conversations
       /\ conversations[e.id].user_id # e.caller
    \/ /\ e.op \in AnalysisOps
       /\ e.id \in DOMAIN analyses
       /\ analyses[e.id].user_id # e.caller
    \/ /\ e.op \in StrategyOps
       /\ e.id \in DOMAIN strategies
       /\ strategies[e.id].user_id # e.caller

\* C2: a by-identifier operation on a conversation, analysis or strategy of
\* another user answers 404 (not 403, not success) and changes no row.
C2_ForeignLookupNotFound ==
    [][ForeignTarget(event') =>
          /\ event'.code = 404
          /\ UNCHANGED <<conversations, analyses, strategies>>]_vars

\* a user asked to move another user's conversation to a new phase and got 404
C2_Witness ==
    /\ event.op = "update_ring_phase"
    /\ event.id \in DOMAIN conversations
    /\ conversations[event.id].user_id # event.caller
    /\ conversations[event.id].ring_phase # event.arg
    /\ event.code = 404

RingPhaseChanged(c) ==
    /\ c \in DOMAIN conversations
    /\ c \in DOMAIN conversations'
    /\ conversations'[c].ring_phase # conversations[c].ring_phase

\* C3: no step of send_message changes a stored ring_phase, whatever
\* should_advance it returns; a stored ring_phase changes only in a step of
\* update_ring_phase.
C3_HeuristicAdvisory ==
    [][\A c \in ConversationIds :
          /\ event'.op = "send_message" => ~RingPhaseChanged(c)
          /\ RingPhaseChanged(c) => event'.op = "update_ring_phase"]_vars

\* send_message returned should_advance = true and the conversation is still
\* in the phase the heuristic judged
C3_Witness ==
    /\ event.op = "send_message"
    /\ event.code = 200
    /\ event.arg.should_advance
    /\ conversations[event.id].ring_phase = event.arg.ring_phase

\* C4 as stated: every change of ring_phase goes to the immediate successor
C4_ForwardOnly ==
    [][\A c \in ConversationIds :
          RingPhaseChanged(c) =>
             PhaseIndex(conversations'[c].ring_phase)
                = PhaseIndex(conversations[c].ring_phase) + 1]_vars

\* C4 (amended): every change of a conversation's ring_phase is the effect of
\* an update_ring_phase request of its owner on that conversation and sets the
\* phase that request names, one of the five phases; the order of the phases
\* is not enforced.
C4_ChangeIsRequestedPhase ==
    [][\A c \in ConversationIds :
          RingPhaseChanged(c) =>
             /\ event' = Event("update_ring_phase", conversations[c].user_id, c, 200,
                               conversations'[c].ring_phase)
             /\ conversations'[c].ring_phase \in RingPhase]_vars

\* a conversation has been moved out of core (to any phase)
C4_Witness ==
    /\ event.op = "update_ring_phase"
    /\ event.code = 200
    /\ conversations[event.id].ring_phase = "execute"

\* the owner's update_ring_phase in the step to event'
OwnerUpdate ==
    /\ event'.op = "update_ring_phase"
    /\ event'.id \in DOMAIN conversations
    /\ conversations[event'.id].user_id = event'.caller

\* C5: update_ring_phase by the owner succeeds for each of the five phases
\* from every current phase, and the stored ring_phase is then the requested one.
C5_ManualOverride ==
    [][OwnerUpdate =>
          /\ event'.code = 200
          /\ event'.id \in DOMAIN conversations'
          /\ conversations'[event'.id].ring_phase = event'.arg]_vars

\* after send_message signalled should_advance in optimize, the owner set the
\* conversation back to core
C5_Witness ==
    /\ event.op = "update_ring_phase"
    /\ event.code = 200
    /\ event.arg = "core"
    /\ conversations[event.id].ring_phase = "core"
    /\ Len(conversations[event.id].messages) = MaxMessages

Checkpoints == <<0, 10, 20, 40, 60, 80, 90, 100>>

\* C6: the committed progress of an analysis starts at 0 and every change of
\* it goes from one checkpoint of 0, 10, 20, 40, 60, 80, 90, 100 to the next,
\* so the values read in order form a prefix of that list, also when the run
\* ends in failure.
C6_ProgressFollowsCheckpoints ==
    [][/\ \A a \in DOMAIN analyses' \ DOMAIN analyses : analyses'[a].progress = 0
       /\ \A a \in DOMAIN analyses :
             /\ a \in DOMAIN analyses'
             /\ \/ analyses'[a].progress = analyses[a].progress
                \/ \E i \in 1..(Len(Checkpoints) - 1) :
                      /\ analyses[a].progress = Checkpoints[i]
                      /\ analyses'[a].progress = Checkpoints[i + 1]]_vars

\* a run that failed in the SEO stage: the last committed progress is 40
C6_Witness ==
    \E a \in DOMAIN analyses :
        /\ analyses[a].status = "failed"
        /\ analyses[a].progress = 40
        /\ tasks[a].exc = ExceptionText("seo")

Terminal == {"completed", "failed"}

\* C7 as stated: every created analysis eventually has status COMPLETED or
\* FAILED, and a terminal status is never replaced by the other one.
C7_EventuallyTerminal ==
    /\ \A a \in AnalysisIds :
          (a \in DOMAIN analyses) ~>
             (a \in DOMAIN analyses /\ analyses[a].status \in Terminal)
    /\ [][\A a \in DOMAIN analyses :
             analyses[a].status \in Terminal =>
                analyses'[a].status = analyses[a].status]_vars

\* the task of an analysis has ended on the ImportError and the row is still
\* PENDING with progress 0
C7_Witness ==
    \E a \in DOMAIN analyses :
        /\ tasks[a] = [pc |-> "crashed", exc |-> "ImportError"]
        /\ analyses[a].status = "pending"
        /\ analyses[a].progress = 0

StageExceptions == {ExceptionText(Stages[i]) : i \in 1..Len(Stages)}

TaskUnfinished(a) ==
    /\ a \in DOMAIN tasks
    /\ tasks[a].pc \notin {"done", "crashed"}

\* C9: while the task of an analysis has not finished, the row that a status
\* read returns has status PENDING or PROCESSING and progress below 100, and
\* so does the answer of a status read just made; the record create_analysis
\* returns is PENDING with progress 0.
C9_UnfinishedIsPendingOrProcessing ==
    /\ \A a \in DOMAIN analyses :
          TaskUnfinished(a) =>
             /\ analyses[a].status \in {"pending", "processing"}
             /\ analyses[a].progress < 100
    /\ (event.op = "get_analysis_status" /\ event.code = 200 /\ TaskUnfinished(event.id)) =>
          /\ event.arg.status \in {"pending", "processing"}
          /\ event.arg.progress < 100
    /\ (event.op = "create_analysis" /\ event.code = 201) =>
          /\ event.arg.status = "pending"
          /\ event.arg.progress = 0

\* a status read answered PROCESSING / 90 while the last stage had yet to run
C9_Witness ==
    /\ event.op = "get_analysis_status"
    /\ event.code = 200
    /\ event.arg = [status |-> "processing", progress |-> 90]
    /\ tasks[event.id].pc = "report"

\* an http(s) URL with a scheme and a host
ValidHttpUrl(url) ==
    /\ url.scheme \in {"http", "https"}
    /\ url.sep = "://"
    /\ url.host # ""

\* C10 as stated: a create-analysis request whose website_url is not an
\* http(s) URL with a scheme and a host is answered 400 or 422, and no row is
\* created and no task dispatched.
C10_InvalidUrlRejected ==
    [][(event'.op = "create_analysis" /\ ~ValidHttpUrl(event'.arg.url)) =>
          /\ event'.code \in {400, 422}
          /\ UNCHANGED <<analyses, tasks>>]_vars

\* "http://:80" (a port and no host) was accepted: the row and its task exist
C10_Witness ==
    /\ event.op = "create_analysis"
    /\ event.code = 201
    /\ event.arg.url = [scheme |-> "http", sep |-> "://", host |-> "", port |-> ":80"]
    /\ event.id \in DOMAIN analyses
    /\ event.id \in DOMAIN tasks

LastMessage(c) == conversations[c].messages[Len(conversations[c].messages)]

MinimumExchanges == [core |-> 4, discover |-> 3, plan |-> 3, execute |-> 4, optimize |-> 3]
CoverageThreshold == [core |-> 3, discover |-> 2, plan |-> 2, execute |-> 2, optimize |-> 2]

\* the user messages of the transcript the heuristic was applied to
UserMessageCount ==
    LET messages == Transcript(call.initial_context, call.count, call.text) IN
    Cardinality({i \in 1..Len(messages) : messages[i].role = "user"})

\* the key topics of the phase that occur in the transcript or the last exchange
MatchedKeywords ==
    LET messages == Transcript(call.initial_context, call.count, call.text) IN
    Cardinality(KeySignals(call.ring_phase) \cap
                   (UNION {Phrases(messages[i].content) : i \in 1..Len(messages)}
                       \cup Phrases(call.user_message) \cup Phrases(call.ai_response)))

\* C12: analyze_for_phase_advancement returns should_advance = false when the
\* transcript has fewer user messages than the phase's minimum (4, 3, 3, 4, 3)
\* whatever keywords occur, and should_advance = true when it has at least the
\* minimum and at least the phase's coverage threshold (3 for core, 2
\* otherwise) of the phase's keywords occur.
C12_HeuristicThresholds ==
    (call.fn = "analyze_for_phase_advancement" /\ call.done) =>
       /\ UserMessageCount < MinimumExchanges[call.ring_phase] =>
             ~call.result.should_advance
       /\ (/\ UserMessageCount >= MinimumExchanges[call.ring_phase]
           /\ MatchedKeywords >= CoverageThreshold[call.ring_phase]) =>
             call.result.should_advance

\* a core transcript of three keyword-rich user messages: below the minimum of
\* four, so no advance although more than three key topics are covered
C12_Witness ==
    /\ call.fn = "analyze_for_phase_advancement"
    /\ call.done
    /\ call.ring_phase = "core"
    /\ UserMessageCount = 3
    /\ MatchedKeywords >= 3
    /\ ~call.result.should_advance

\* the step is the first step of a register call (not its commit)
RegisterCalled ==
    /\ event'.op = "register"
    /\ \A k \in Slots : inflight[k].op = "register" => inflight'[k] = inflight[k]

\* C13: no two stored users share an e-mail, and a register call (valid by
\* the schema) whose e-mail already belongs to a user is answered 409 and
\* leaves the users unchanged.
C13_UniqueEmail ==
    [][/\ \A i, j \in DOMAIN users' :
             users'[i].email = users'[j].email => i = j
       /\ (/\ RegisterCalled
           /\ event'.caller \in RegisteredEmails
           /\ event'.arg \in AcceptedPasswords) =>
             /\ event'.code = 409
             /\ users' = users]_vars

\* with both e-mails registered, a further register of one of them got 409
C13_Witness ==
    /\ event.op = "register"
    /\ event.code = 409
    /\ event.caller \in RegisteredEmails
    /\ Cardinality(DOMAIN users) = 2

\* the users whose e-mail and current password are the given credentials
Matching(email, p) ==
    {i \in DOMAIN users :
        users[i].email = email /\ users[i].hashed_password = PasswordHash(p)}

\* C14: the user register answers with is the stored user of those
\* credentials and keeps its identifier and e-mail; a login with the
\* credentials of a stored user answers 200 with that user's identifier, and
\* a login with another password or an unknown e-mail answers 401.
C14_RegisterLoginRoundTrip ==
    [][/\ (event'.op = "register" /\ event'.code = 201) =>
             /\ event'.id \in DOMAIN users' \ DOMAIN users
             /\ users'[event'.id].email = event'.caller
             /\ users'[event'.id].hashed_password = PasswordHash(event'.arg)
       /\ \A i \in DOMAIN users :
             i \in DOMAIN users' /\ users'[i].email = users[i].email
       /\ event'.op = "login" =>
             IF Matching(event'.caller, event'.arg) # {}
             THEN event'.code = 200 /\ event'.id \in Matching(event'.caller, event'.arg)
             ELSE event'.code = 401]_vars

\* the second registered user logged in and got the identifier 2 back
C14_Witness ==
    /\ event.op = "login"
    /\ event.code = 200
    /\ event.id = 2
    /\ users[2].email = event.caller
    /\ users[2].hashed_password = PasswordHash(event.arg)

\* a password-carrying request: a register call or a reset confirmation
PasswordChecked ==
    RegisterCalled \/ event'.op = "confirm_password_reset"

\* at least 8 characters, a digit and a special character
MeetsThreeConditions(p) ==
    /\ Len(PasswordText(p)) >= 8
    /\ p.digit
    /\ p.symbol \in SpecialCharacters

\* C15 as stated: a password is accepted if and only if it has at least 8
\* characters, a digit and a special character; a rejected one is answered
\* 422 and nothing is stored.
C15_PasswordIffThreeConditions ==
    [][PasswordChecked =>
          /\ event'.code # 422 <=> MeetsThreeConditions(event'.arg)
          /\ event'.code = 422 => users' = users]_vars

\* C15 (amended): a password is accepted if and only if it has at least 8 and
\* at most 128 characters, a digit and a special character; a rejected one is
\* answered 422 and no user is created or changed.
C15_PasswordIffWithinLimits ==
    [][PasswordChecked =>
          /\ event'.code # 422 <=>
                (MeetsThreeConditions(event'.arg) /\ Len(PasswordText(event'.arg)) <= 128)
          /\ event'.code = 422 => users' = users]_vars

\* a register call with a password of 129 characters that has a digit and a
\* special character was answered 422
C15_Witness ==
    /\ event.op = "register"
    /\ event.code = 422
    /\ MeetsThreeConditions(event.arg)
    /\ Len(PasswordText(event.arg)) = 129

\* C16: the answer of the password-reset request is status 200 with one fixed
\* message for every e-mail, registered or not.
C16_ResetRequestUniform ==
    event.op = "request_password_reset" =>
       /\ event.code = 200
       /\ event.id = 0
       /\ event.arg = "if an account with that email exists, a link has been sent"

\* a request for an e-mail without account, while the other e-mail has one
\* with a reset token stored by an earlier request
C16_Witness ==
    /\ event.op = "request_password_reset"
    /\ event.caller \notin RegisteredEmails
    /\ \E i \in DOMAIN users : users[i].password_reset_token # NoResetToken

\* the sockets listed in the registry, under any conversation
Registered ==
    UNION {{active_connections[c][i] : i \in 1..Len(active_connections[c])} :
              c \in DOMAIN active_connections}
\* the token passes the signature and expiry checks and names a user id
Verified(token) ==
    token.signed /\ ~token.expired /\ token.sub # "none"
\* conversation c exists and belongs to user u
Owns(u, c) == c \in DOMAIN conversations /\ conversations[c].user_id = u

\* C17: a WebSocket is registered with the connection manager only after its
\* token was verified and the conversation was found to be owned by the
\* token's user: a connection with an invalid token is closed with 4001, one
\* for a conversation the user does not own with 4004, neither is registered,
\* and a broadcast is sent only to registered sockets, each connected for a
\* conversation its user owns.
C17_RegisteredAfterVerification ==
    /\ \A c \in DOMAIN active_connections : \A i \in 1..Len(active_connections[c]) :
           LET s == active_connections[c][i] IN
           /\ sockets[s].state = "connected"
           /\ sockets[s].conversation_id = c
           /\ Owns(sockets[s].user_id, c)
    /\ event.op = "websocket_chat" =>
           LET token == event.arg.token
               s == event.arg.socket
           IN  /\ ~Verified(token) => event.code = 4001 /\ s \notin Registered
               /\ Verified(token) /\ ~Owns(token.sub, event.id) =>
                      event.code = 4004 /\ s \notin Registered
               /\ Verified(token) /\ Owns(token.sub, event.id) =>
                      /\ event.code = 101
                      /\ \E i \in 1..Len(Listed(active_connections, event.id)) :
                             active_connections[event.id][i] = s
                      /\ sockets[s].user_id = token.sub
    /\ event.op = "send_json" =>
           /\ event.id \in Registered \/ event.id = event.arg.by
           /\ event.arg.delivered => Owns(sockets[event.id].user_id, event.arg.conversation_id)

\* a connection is refused with 4004 while another socket is registered
C17_Witness ==
    /\ event.op = "websocket_chat"
    /\ event.code = 4004
    /\ Registered # {}

\* the sockets listed under conversation c
ListedUnder(c) ==
    {Listed(active_connections, c)[i] : i \in 1..Len(Listed(active_connections, c))}
\* the sockets that completed connect for c and were not disconnected since
LiveConnections(c) ==
    {s \in SocketIds : sockets[s].state = "connected" /\ sockets[s].conversation_id = c}

\* C19: the registry always equals the set of live connections: the sockets
\* listed under a conversation are exactly those that completed connect for
\* it and have not been disconnected since (each listed once), no key maps to
\* an empty list, and a send of a broadcast for a conversation goes to a socket
\* listed under that conversation.
C19_RegistryIsLiveConnections ==
    /\ \A c \in WsConversationIds :
           /\ ListedUnder(c) = LiveConnections(c)
           /\ Len(Listed(active_connections, c)) = Cardinality(ListedUnder(c))
    /\ DOMAIN active_connections \subseteq WsConversationIds
    /\ \A c \in DOMAIN active_connections : active_connections[c] # <<>>
    /\ event.op = "send_json" =>
           \/ event.id \in ListedUnder(event.arg.conversation_id)
           \/ ~event.arg.delivered /\ event.id = event.arg.by

\* the last socket of a conversation has been disconnected while a socket of
\* another conversation stays listed
C19_Witness ==
    /\ event.op = "receive_json"
    /\ event.arg.frame = "disconnect"
    /\ event.id \notin DOMAIN active_connections
    /\ active_connections # <<>>

\* a send of a broadcast failed on a socket other than the one whose handler
\* makes the broadcast
ForeignSendFailed ==
    /\ event.op = "send_json"
    /\ ~event.arg.delivered
    /\ event.id # event.arg.by

\* C20: when sending a broadcast to one socket fails, only that socket is
\* affected: the broadcast goes on to the other sockets of the conversation,
\* and the WebSocket handler or REST request that triggered it is neither
\* failed nor disconnected.
C20_BroadcastFaultIsolation ==
    ForeignSendFailed =>
        LET by == event.arg.by IN
        /\ event.code \notin {500, 4000}
        /\ work[by].stage = event.arg.stage
        /\ by \in SocketIds =>
               /\ sockets[by].state = "connected"
               /\ by \in ListedUnder(event.arg.conversation_id)

\* a send to another socket failed: the handler that made the broadcast has
\* been disconnected and the socket whose send failed is still listed
C20_Witness ==
    /\ ForeignSendFailed
    /\ event.arg.by \in SocketIds
    /\ sockets[event.arg.by].state = "closed"
    /\ event.id \in ListedUnder(event.arg.conversation_id)

\* the row a run of _run_analysis leaves when it executes alone from stage i
\* on and meets the exception exc (or none)
RECURSIVE SoloRun(_, _, _)
SoloRun(row, i, exc) ==
    IF i > Len(Stages) THEN row
    ELSE IF exc = ExceptionText(Stages[i]) THEN Failed(row, exc)
    ELSE IF Stages[i] = "report" THEN Completed(row)
    ELSE SoloRun([row EXCEPT !.progress = ProgressAfter(Stages[i])], i + 1, exc)

\* the row task leaves when it runs alone on the row created as row0
SoloFinal(row0, task) ==
    IF task.pc = "crashed" THEN row0
    ELSE SoloRun([row0 EXCEPT !.status = "processing", !.progress = 10], 1, task.exc)

\* every ended task left its row as its run alone would have
SoloOutcome ==
    \A a \in DOMAIN tasks :
        tasks[a].pc \in {"done", "crashed"} =>
            analyses[a] =
                SoloFinal(NewAnalysis(analyses[a].user_id,
                                      analyses[a].include_competitors,
                                      analyses[a].include_social),
                          tasks[a])

\* a step of the background run of analysis a leaves every other row and
\* every other task as they were
OwnRowOnly ==
    \A a \in WorkerIds :
        event'.op = "run_analysis" /\ event'.id = a =>
            /\ DOMAIN analyses' = DOMAIN analyses
            /\ \A b \in DOMAIN analyses \ {a} : analyses'[b] = analyses[b]
            /\ \A b \in DOMAIN tasks \ {a} : tasks'[b] = tasks[b]
            /\ strategies' = strategies

\* C18: background analysis tasks do not interfere: in every interleaving of
\* the background runs of two different Analysis rows each step of a run
\* changes only its own row, and each row's final status, progress, results
\* and error message are those its run leaves when it executes alone.
C18_TasksDoNotInterfere ==
    []SoloOutcome /\ [][OwnRowOnly]_vars

\* two runs are in progress at the same time, the second ahead of the first
C18_Witness ==
    /\ {1, 2} \subseteq DOMAIN tasks
    /\ tasks[1].pc \in StageSet
    /\ tasks[2].pc \in StageSet
    /\ analyses[2].progress > analyses[1].progress
    /\ event.op = "run_analysis"
    /\ event.id = 1

\* C30: OPTIMIZE is terminal for the heuristic: for a conversation whose
\* ring_phase is OPTIMIZE, analyze_for_phase_advancement never returns
\* should_advance = true, whatever the transcript and the latest assistant
\* response contain.
C30_OptimizeTerminal ==
    (call.fn = "analyze_for_phase_advancement" /\ call.done
        /\ call.ring_phase = "optimize") =>
        ~call.result.should_advance

\* the heuristic answered should_advance for an OPTIMIZE conversation with
\* three user messages that cover two of the phase's key topics
C30_Witness ==
    /\ call.fn = "analyze_for_phase_advancement"
    /\ call.done
    /\ call.ring_phase = "optimize"
    /\ call.count = MinExchanges("optimize")
    /\ call.text = "keywords"
    /\ call.result.should_advance
    /\ call.result.reason = "covered key topics"

\* C27: in every reachable state of an Analysis row status, progress and
\* results agree: status is COMPLETED exactly when progress is 100, results and
\* completed_at are non-null exactly when status is COMPLETED, and a FAILED row
\* keeps the progress of the last committed checkpoint below 100 and has null
\* results; the results read returns results only with status COMPLETED.
C27_StatusProgressResultsAgree ==
    /\ \A a \in DOMAIN analyses :
           LET row == analyses[a] IN
           /\ row.status = "completed" <=> row.progress = 100
           /\ row.results # "null" <=> row.status = "completed"
           /\ row.completed_at # "null" <=> row.status = "completed"
           /\ row.status = "failed" =>
                  /\ row.progress < 100
                  /\ \E i \in 1..Len(Checkpoints) : row.progress = Checkpoints[i]
                  /\ row.results = "null"
    /\ (event.op = "get_analysis" /\ event.code = 200) =>
           /\ event.arg.status = "completed" <=> event.arg.progress = 100
           /\ event.arg.results # "null" <=> event.arg.status = "completed"

\* the results of a completed analysis are read
C27_Witness ==
    /\ event.op = "get_analysis"
    /\ event.code = 200
    /\ event.arg.status = "completed"
    /\ event.arg.results = "results"
    /\ analyses[event.id].completed_at # "null"

\* the welcome texts of create_conversation
WelcomeTexts == {"welcome_default", "welcome_analysis"}
\* the messages send_message stored among the first k of a transcript
SentCount(messages, k, role) ==
    Cardinality({i \in 1..k : messages[i].role = role
                                 /\ messages[i].content \notin WelcomeTexts})
\* create_conversation has returned and no send_message is in progress on c
Quiescent(c) ==
    /\ PendingReplies(c) = 0
    /\ \A k \in Slots : ~(inflight[k].op = "create_conversation" /\ inflight[k].id = c)

\* the sends on c were made after its welcome message was stored
WelcomeFirst(c) ==
    /\ conversations[c].messages # <<>>
    /\ conversations[c].messages[1].content \in WelcomeTexts

C21_TypingCleared ==
    [][\A s \in SocketIds :
          /\ work[s].stage = "service" =>
                 work'[s].stage \in {"service", "typing_off"}
          /\ (work'[s].stage = "message" /\ work[s].stage # "message") =>
                 work[s].stage = "typing_off"]_vars

\* typing = true reached another socket of the conversation, processing the
\* message failed, and the handler has left without a typing = false
C21_Witness ==
    /\ event.op = "ws_send_message"
    /\ event.arg.exception = "ValidationError"
    /\ event.code = 4000
    /\ sockets[event.arg.socket].state = "closed"
    /\ ListedUnder(event.id) # {}

\* C28: a password-reset token is used at most once: after reset_password
\* has succeeded with a token, the next reset_password to be answered with the
\* same token does not succeed as well.
C28_TokenSingleUse ==
    [][(/\ event.op = "confirm_password_reset"
        /\ event.code = 200
        /\ event'.op = "confirm_password_reset"
        /\ event'.caller = event.caller) => event'.code # 200]_vars

\* reset_password has succeeded with a token, the token and expiry of no user
\* hold it any more, and a second reset_password call with the same token is
\* past its search and about to commit
C28_Witness ==
    /\ event.op = "confirm_password_reset"
    /\ event.code = 200
    /\ event.caller \in issued_tokens
    /\ users[event.id].password_reset_token = NoResetToken
    /\ users[event.id].password_reset_expires = "null"
    /\ \E k \in Slots :
           /\ inflight[k].op = "reset_password"
           /\ inflight[k].caller = event.caller

C24_ScoresInRange ==
    (call.fn = "_calculate_scores" /\ call.done) =>
        LET r == call.result
            content == 100 - 15 * call.content_issues
            seo == 100 - 20 * call.high - 10 * call.medium - 5 * call.low
            total == r.seo + r.content + r.mobile + r.speed + r.social
        IN /\ \A f \in {"seo", "content", "mobile", "speed", "social"} : r[f] \in 0..100
           /\ r.content = IF content < 0 THEN 0 ELSE content
           /\ r.seo = IF seo < 0 THEN 0 ELSE seo
           /\ r.mobile = IF call.mobile_ready THEN 80 ELSE 40
           /\ r.speed = 70
           /\ r.social \in {60, 40}
           /\ 5 * call.overall <= total
           /\ total < 5 * call.overall + 5

\* scores were calculated for seven content issues and six high SEO issues:
\* content and SEO are 0, and the overall score is 30, the floor of 150 / 5
C24_Witness ==
    /\ call.fn = "_calculate_scores"
    /\ call.done
    /\ call.content_issues = 7
    /\ call.high = 6
    /\ ~call.mobile_ready
    /\ call.social = "empty"
    /\ call.result.content = 0
    /\ call.result.seo = 0
    /\ call.overall = 30

\* the threshold of a category, its recommendation and the category name of
\* its action items
Threshold(c) == IF c \in {"seo", "content"} THEN 80 ELSE IF c = "social" THEN 60 ELSE 70
RecommendationId(c) ==
    CASE c = "seo" -> "seo-optimization" [] c = "content" -> "content-strategy"
      [] c = "mobile" -> "mobile-optimization" [] c = "speed" -> "speed-improvement"
      [] OTHER -> "social-presence"
ItemCategory(c) ==
    CASE c = "seo" -> "SEO" [] c = "content" -> "Content" [] c = "mobile" -> "Mobile"
      [] c = "speed" -> "Speed" [] OTHER -> "Social"
Recommended(c) ==
    \E i \in 1..Len(call.recommendations) : call.recommendations[i] = RecommendationId(c)
HasActionItems(c) ==
    \E i \in 1..Len(call.action_items) :
        /\ call.action_items[i].category = ItemCategory(c)
        /\ call.action_items[i].due_in > 0

\* C25: the strategy generator emits a recommendation and dated action items
\* for exactly the categories whose sub-score is below the threshold (80 for
\* SEO and content, 70 for mobile and speed, 60 for social); a category at or
\* above its threshold gets neither.
C25_ItemsForLowCategories ==
    (call.fn = "_generate_recommendations" /\ call.done /\ call.scores # <<>>) =>
        \A c \in Categories :
            /\ Recommended(c) <=> call.scores[c] < Threshold(c)
            /\ HasActionItems(c) <=> call.scores[c] < Threshold(c)

\* the generators ran with the Effort members of models/strategy.py for an SEO
\* score of 79 and every other score at its threshold: the SEO recommendation is
\* emitted, and _generate_action_items raised AttributeError and added no item
C25_Witness ==
    /\ call.fn = "_generate_recommendations"
    /\ call.done
    /\ call.members = EnumNames
    /\ call.scores # <<>>
    /\ call.scores["seo"] = 79
    /\ call.scores["content"] = 80
    /\ call.scores["mobile"] = 70
    /\ call.scores["speed"] = 70
    /\ call.scores["social"] = 60
    /\ call.recommendations = <<"seo-optimization">>
    /\ call.exception = "AttributeError"
    /\ call.action_items = <<>>

\* the action item of an update exists and belongs to a strategy of the caller
OwnedItem(update, caller) ==
    /\ update.action_id \in DOMAIN action_items
    /\ strategies[action_items[update.action_id].strategy_id].user_id = caller

\* the ids of the updates of the batch in progress that name an owned item, in
\* request order
OwnedIds ==
    LET owned == SelectSeq(batch.updates, LAMBDA u : OwnedItem(u, batch.caller))
    IN [i \in 1..Len(owned) |-> owned[i].action_id]

\* C26: a batch update is applied item by item: an update whose item exists
\* and belongs to a strategy of the caller is applied and committed, an update
\* of a missing or foreign item is skipped and changes nothing, the batch goes
\* on after it, and the answer lists exactly the applied items in request order.
C26_BatchItemByItem ==
    [][(batch.pc = "loop" /\ event'.op = "batch_update_actions") =>
          IF event'.code = 0
          THEN LET update == batch.updates[batch.idx] IN
               /\ batch'.pc = "loop"
               /\ batch'.idx = batch.idx + 1
               /\ IF OwnedItem(update, batch.caller)
                  THEN /\ DOMAIN action_items' = DOMAIN action_items
                       /\ action_items'[update.action_id].status = update.status
                       /\ \A i \in DOMAIN action_items \ {update.action_id} :
                              action_items'[i] = action_items[i]
                       /\ Len(batch'.results) = Len(batch.results) + 1
                       /\ batch'.results[Len(batch'.results)].id = update.action_id
                  ELSE /\ action_items' = action_items
                       /\ batch'.results = batch.results
          ELSE /\ event'.code = 200
               /\ action_items' = action_items
               /\ Len(event'.arg) = Len(OwnedIds)
               /\ \A i \in 1..Len(OwnedIds) : event'.arg[i].id = OwnedIds[i]]_vars

\* alice's batch of two updates has been answered: one update was applied and
\* is listed, her item 2 is completed, and bob's item 3 is as it was
C26_Witness ==
    /\ event.op = "batch_update_actions"
    /\ event.code = 200
    /\ event.caller = "alice"
    /\ event.id = 2
    /\ Len(event.arg) = 1
    /\ event.arg[1].id = 2
    /\ action_items[2].status = "completed"
    /\ action_items[2].completed_at = "utcnow"
    /\ action_items[3].status = "pending"

\* the action items stored for strategy s
ItemsOf(s) == {i \in DOMAIN action_items : action_items[i].strategy_id = s}

====
